---- MODULE Spec2Model ----
(***************************************************************************)
(* Model of the ecm2lib sector codec (ecm::processor) and of the callers   *)
(* that drive it (the stream test and the encode/decode command line).     *)
(*                                                                         *)
(* Bytes are naturals 0..255.  Buffers are segmented memories: a set of    *)
(* chunks <<offset, length, value>> with real byte offsets and lengths;    *)
(* a byte range that holds no chunk is zero.  EDC and ECC values are       *)
(* terms over the bytes they cover (equal bytes give equal checksums, and  *)
(* all-zero bytes give an all-zero checksum); the lookup tables, the MSF   *)
(* conversion, the index packer and, in a specification of its own, the    *)
(* ECC passes are computed on real bytes.                                  *)
(***************************************************************************)
EXTENDS Integers, Sequences, FiniteSets, TLC

VARIABLES
    \* processor::processor() (the lookup tables and the loop position)
    lut_i, ecc_f_lut, ecc_b_lut, edc_lut,
    \* the build's choice for plain char (signed or unsigned)
    char_signed,
    \* sector_to_time / time_to_sector round trip
    msf_pc, msf_sector, msf_time, msf_result,
    \* pack_header / unpack_header round trip
    hdr_pc, hdr_index, hdr_w, hdr_packed, hdr_unpacked, hdr_raw,
    \* one sector through detect, encode_sector and decode_sector
    sec_pc, sec_image, sec_number, sec_options, sec_type,
    sec_input, sec_process, sec_output,
    \* a stream through encode_stream and decode_stream
    pc, image, startSector, useBest, passes,
    inputBuffer, processBuffer, outputBuffer, sectorIndex,
    usedOptimizations, resultedOptimizations, negotiated,
    encodeStatus, decodeStatus,
    \* one call of encode_stream or decode_stream on the caller's buffers
    call_pc, call_args, call_ret,
    \* the command line: main() of encode_decode.cpp
    drv_pc, drv_file, drv_i, drv_input, drv_output, drv_index, drv_config,
    drv_written, drv_log, drv_code, drv_removed,
    \* ecc_write_sector and ecc_check_sector on the bytes of one sector
    ecc_pc, ecc_address, ecc_sector, ecc_regenerated, ecc_ok

lutVars == <<lut_i, ecc_f_lut, ecc_b_lut, edc_lut>>
msfVars == <<char_signed, msf_pc, msf_sector, msf_time, msf_result>>
hdrVars == <<hdr_pc, hdr_index, hdr_w, hdr_packed, hdr_unpacked, hdr_raw>>
secVars == <<sec_pc, sec_image, sec_number, sec_options, sec_type,
             sec_input, sec_process, sec_output>>
strVars == <<pc, image, startSector, useBest, passes,
             inputBuffer, processBuffer, outputBuffer, sectorIndex,
             usedOptimizations, resultedOptimizations, negotiated,
             encodeStatus, decodeStatus>>
callVars == <<call_pc, call_args, call_ret>>
drvVars == <<drv_pc, drv_file, drv_i, drv_input, drv_output, drv_index, drv_config,
             drv_written, drv_log, drv_code, drv_removed>>
eccVars == <<ecc_pc, ecc_address, ecc_sector, ecc_regenerated, ecc_ok>>
vars == <<lutVars, msfVars, hdrVars, secVars, strVars, callVars, drvVars, eccVars>>

---------------------------------------------------------------------------
(* Bounds of the model *)

\* minutes covered by the MSF round trip (the claim covers 0..100)
MaxMinute == 100
\* number of runs an index of the packer is built from
MaxRuns == 2

---------------------------------------------------------------------------
(* Integer helpers: C arithmetic on fixed-width values *)

RECURSIVE Xor(_, _)
Xor(a, b) ==
    IF a = 0 THEN b
    ELSE IF b = 0 THEN a
    ELSE ((a + b) % 2) + 2 * Xor(a \div 2, b \div 2)

RECURSIVE Pow(_, _)
Pow(b, e) == IF e = 0 THEN 1 ELSE b * Pow(b, e - 1)

\* C division and remainder (truncation toward zero) for a positive divisor
CDiv(a, b) == IF a >= 0 THEN a \div b ELSE -((-a) \div b)
CMod(a, b) == IF a >= 0 THEN a % b ELSE -((-a) % b)

\* the value of a byte read through a plain char
AsChar(b, signed) == IF signed /\ b >= 128 THEN b - 256 ELSE b

---------------------------------------------------------------------------
(* enum sector_type *)

ST_UNKNOWN == 0
ST_CDDA == 1
ST_CDDA_GAP == 2
ST_MODE1 == 3
ST_MODE1_GAP == 4
ST_MODE1_RAW == 5
ST_MODE2 == 6
ST_MODE2_GAP == 7
ST_MODE2_XA_GAP == 8
ST_MODE2_XA1 == 9
ST_MODE2_XA1_GAP == 10
ST_MODE2_XA2 == 11
ST_MODE2_XA2_GAP == 12
ST_MODEX == 13

---------------------------------------------------------------------------
(* processor::processor(): the three lookup tables *)

LutSize == 256
EccPoly == 285
\* 0xD8018001 as its two 16-bit halves (a 32-bit word is <<high, low>>)
EdcPolyHi == 55297
EdcPolyLo == 32769
Uninit == -1

\* j = (i << 1) ^ (i & 0x80 ? 0x11D : 0)
EccFEntry_WrongPoly(i) == Xor(i * 2, IF (i \div 128) % 2 = 1 THEN EccPoly - 1 ELSE 0)
EccFEntry(i) == Xor(i * 2, IF (i \div 128) % 2 = 1 THEN EccPoly ELSE 0)

\* edc = (edc >> 1) ^ (edc & 1 ? 0xD8018001 : 0) on a 32-bit word
EdcShift(edc) ==
    LET hi == edc[1] \div 2
        lo == (edc[2] \div 2) + (edc[1] % 2) * 32768
    IN IF edc[2] % 2 = 1
       THEN <<Xor(hi, EdcPolyHi), Xor(lo, EdcPolyLo)>>
       ELSE <<hi, lo>>

\* the inner loop: eight shifts
RECURSIVE EdcEntry(_, _)
EdcEntry(edc, j) == IF j = 8 THEN edc ELSE EdcEntry(EdcShift(edc), j + 1)

LutInit ==
    /\ lut_i = 0
    /\ ecc_f_lut = [k \in 0..(LutSize - 1) |-> Uninit]
    /\ ecc_b_lut = [k \in 0..(LutSize - 1) |-> Uninit]
    /\ edc_lut = [k \in 0..(LutSize - 1) |-> <<Uninit, Uninit>>]

\* one iteration of the constructor's loop
CtorStep ==
    /\ lut_i < LutSize
    /\ LET j == EccFEntry(lut_i)
       IN /\ ecc_f_lut' = [ecc_f_lut EXCEPT ![lut_i] = j % 256]
          /\ ecc_b_lut' = [ecc_b_lut EXCEPT ![Xor(lut_i, j)] = lut_i]
    /\ edc_lut' = [edc_lut EXCEPT ![lut_i] = EdcEntry(<<0, lut_i>>, 0)]
    /\ lut_i' = lut_i + 1
    /\ UNCHANGED <<msfVars, hdrVars, secVars, strVars, callVars, drvVars, eccVars>>

---------------------------------------------------------------------------
(* sector_to_time / time_to_sector *)

Bcd(v) == ((v \div 10) * 16 + (v % 10)) % 256

sector_to_time(sectorNumber) ==
    LET sectors == (sectorNumber % 75) % 256
        seconds == ((sectorNumber \div 75) % 60) % 256
        minutes == ((sectorNumber \div 75) \div 60) % 256
    IN <<Bcd(minutes), Bcd(seconds), Bcd(sectors)>>

\* (c / 16 * 10) + (c % 16) on a plain char, stored in a uint16_t
FromBcd(b, signed) ==
    LET c == AsChar(b, signed)
    IN (CDiv(c, 16) * 10 + CMod(c, 16)) % 65536

\* the sum is formed in int; three uint16_t terms stay below 2^31
time_to_sector(msf, signed) ==
    LET minutes == FromBcd(msf[1], signed)
        seconds == FromBcd(msf[2], signed)
        sectors == FromBcd(msf[3], signed)
    IN (minutes * 60 * 75) + (seconds * 75) + sectors

\* frames tried within each second: the BCD digit boundaries
FrameSamples == {0, 1, 9, 10, 59, 73, 74}

MsfSectors ==
    {m * 4500 + s * 75 + f : m \in 0..MaxMinute, s \in 0..59, f \in FrameSamples}

MsfInit ==
    /\ char_signed \in BOOLEAN
    /\ msf_pc = "start"
    /\ msf_sector \in {n \in MsfSectors : n >= 150 /\ n <= 75 * 60 * 100 + 150}
    /\ msf_time = <<0, 0, 0>>
    /\ msf_result = 0

SectorToTime ==
    /\ msf_pc = "start"
    /\ msf_time' = sector_to_time(msf_sector)
    /\ msf_pc' = "time"
    /\ UNCHANGED <<char_signed, msf_sector, msf_result, lutVars, hdrVars, secVars, strVars, callVars, drvVars, eccVars>>

TimeToSector ==
    /\ msf_pc = "time"
    /\ msf_result' = time_to_sector(msf_time, char_signed)
    /\ msf_pc' = "done"
    /\ UNCHANGED <<char_signed, msf_sector, msf_time, lutVars, hdrVars, secVars, strVars, callVars, drvVars, eccVars>>

---------------------------------------------------------------------------
(* data_buffer<sector_type> and the index packer *)

\* a data_buffer: the vector and the two cursors
Buffer(items) == [buffer |-> items, current_position |-> 0, start_position |-> 0]

\* data_buffer::operator[]: the item at current_position + item.  There is
\* no bounds check: an item beyond the vector is what lies after it in
\* memory.
At(buf, item) ==
    IF buf.current_position + item < Len(buf.buffer)
    THEN buf.buffer[buf.current_position + item + 1]
    ELSE buf.after[buf.current_position + item + 1 - Len(buf.buffer)]

\* memcpy(dst, &count, n): the n low bytes of a little-endian size_t
RECURSIVE CountBytes(_, _)
CountBytes(count, n) ==
    IF n = 0 THEN <<>> ELSE <<count % 256>> \o CountBytes(count \div 256, n - 1)

\* memcpy(&count, src, n) into a zeroed size_t
RECURSIVE BytesCount(_)
BytesCount(bytes) ==
    IF bytes = <<>> THEN 0 ELSE Head(bytes) + 256 * BytesCount(Tail(bytes))

ClampCounter(bytes_for_counter) ==
    IF bytes_for_counter > 4 THEN 4
    ELSE IF bytes_for_counter < 1 THEN 1
    ELSE bytes_for_counter

\* the loop body without the push at count == max_count
PackBody_NoMax(index, w, st, i) ==
    LET cur1 == IF st.current = ST_UNKNOWN THEN At(index, i) ELSE st.current
        push == /\ st.count > 0
                /\ \/ (i + 1) = Len(index.buffer)
                   \/ cur1 # At(index, i)
    IN IF push
       THEN [current |-> At(index, i),
             count |-> 0 + 1,
             packed |-> st.packed \o <<cur1>> \o CountBytes(st.count, w)]
       ELSE [current |-> cur1, count |-> st.count + 1, packed |-> st.packed]

\* the body of pack_header's for loop at iteration i; st holds the locals
\* current and count and the vector packed_header
PackBody(index, w, st, i) ==
    LET cur1 == IF st.current = ST_UNKNOWN THEN At(index, i) ELSE st.current
        push == /\ st.count > 0
                /\ \/ (i + 1) = Len(index.buffer)
                   \/ st.count = Pow(256, w) - 1
                   \/ cur1 # At(index, i)
    IN IF push
       THEN [current |-> At(index, i),
             count |-> 0 + 1,
             packed |-> st.packed \o <<cur1>> \o CountBytes(st.count, w)]
       ELSE [current |-> cur1, count |-> st.count + 1, packed |-> st.packed]

\* iterations lo .. hi-1 of the loop, in order (split in halves to keep the
\* evaluation shallow)
RECURSIVE PackFor(_, _, _, _, _)
PackFor(index, w, st, lo, hi) ==
    IF lo >= hi THEN st
    ELSE IF hi = lo + 1 THEN PackBody(index, w, st, lo)
    ELSE LET mid == (lo + hi) \div 2
             half == PackFor(index, w, st, lo, mid)
         IN IF half.count >= 0 THEN PackFor(index, w, half, mid, hi) ELSE half

pack_header(index, bytes_for_counter) ==
    PackFor(index, ClampCounter(bytes_for_counter),
            [current |-> ST_UNKNOWN, count |-> 0, packed |-> <<>>],
            0, Len(index.buffer)).packed

Repeat(n, x) == [k \in 1..n |-> x]

\* the body of unpack_header's for loop, from byte i on
RECURSIVE UnpackLoop(_, _, _, _)
UnpackLoop(index, w, i, unpacked) ==
    IF i >= Len(index) THEN unpacked
    ELSE
        LET type == index[i + 1]
            count == BytesCount(SubSeq(index, i + 2, i + 1 + w))
        IN UnpackLoop(index, w, i + (w + 1), unpacked \o Repeat(count, type))

unpack_header(index, bytes_for_counter) ==
    Buffer(UnpackLoop(index, bytes_for_counter, 0, <<>>))

\* The loop of unpack_header on the size bytes of a vector, the memory mem
\* being the vector and the bytes after it: for every record from byte i
\* on, its type and the bytes that memcpy(&count, index.data() + (i + 1),
\* bytes_for_counter) brings into count.
RECURSIVE RawRecords(_, _, _, _)
RawRecords(mem, size, w, i) ==
    IF i >= size THEN <<>>
    ELSE <<<<mem[i + 1], SubSeq(mem, i + 2, i + 1 + w)>>>>
            \o RawRecords(mem, size, w, i + (w + 1))

\* the number of bytes that loop reads at or after index.data() + size: the
\* last record starts at the last multiple of w + 1 below size and is read
\* up to its byte w
PastEnd(size, w) ==
    IF size = 0 THEN 0
    ELSE LET last == ((size - 1) \div (w + 1)) * (w + 1)
         IN IF last + w + 1 > size THEN last + w + 1 - size ELSE 0

\* the values of bytes_for_counter tried on the unpack side
UnpackWidths == 0..5
\* the bytes that follow a packed vector in memory
HeapBytes == {Repeat(5, 0), Repeat(5, 255)}
NoRead == [w |-> 0, past_end |-> 0, records |-> <<>>]

\* the indexes tried: up to MaxRuns runs of a type, of lengths around the
\* one-byte counter's maximum
RunTypes == {ST_CDDA, ST_MODE1, ST_MODE2_XA1}
RunLens == {1, 2, 3, 256 - 1, 256}
\* and one run too long for a one-byte counter several times over
LongRun == 1000
Runs == (RunTypes \X RunLens) \cup {<<ST_MODE1, LongRun>>}

RECURSIVE Expand(_)
Expand(runs) ==
    IF runs = <<>> THEN <<>>
    ELSE Repeat(Head(runs)[2], Head(runs)[1]) \o Expand(Tail(runs))

RunSeqs == UNION {[1..n -> Runs] : n \in 1..MaxRuns}

HdrInit ==
    /\ hdr_pc = "start"
    /\ hdr_index \in {Buffer(Expand(r)) : r \in RunSeqs}
    /\ hdr_w \in 1..3
    /\ hdr_packed = <<>>
    /\ hdr_unpacked = Buffer(<<>>)
    /\ hdr_raw = NoRead

PackHeader ==
    /\ hdr_pc = "start"
    /\ hdr_packed' = pack_header(hdr_index, hdr_w)
    /\ hdr_pc' = "packed"
    /\ UNCHANGED <<hdr_index, hdr_w, hdr_unpacked, hdr_raw, lutVars, msfVars, secVars, strVars, callVars, drvVars, eccVars>>

UnpackHeader ==
    /\ hdr_pc = "packed"
    /\ hdr_unpacked' = unpack_header(hdr_packed, hdr_w)
    /\ hdr_pc' = "unpacked"
    /\ UNCHANGED <<hdr_index, hdr_w, hdr_packed, hdr_raw, lutVars, msfVars, secVars, strVars, callVars, drvVars, eccVars>>

\* unpack_header called with any bytes_for_counter on the packed vector,
\* for instance the pack mode found in a container header.  A read past
\* the end of the vector is undefined: it ends the program, or it brings
\* whatever bytes lie after the vector.
UnpackWith ==
    /\ hdr_pc = "packed"
    /\ \E w \in UnpackWidths :
          \E past \in {PastEnd(Len(hdr_packed), w)} :
              \/ /\ \E after \in HeapBytes :
                        hdr_raw' = [w |-> w, past_end |-> past,
                                    records |-> RawRecords(IF past = 0 THEN hdr_packed
                                                           ELSE hdr_packed \o after,
                                                           Len(hdr_packed), w, 0)]
                 /\ hdr_pc' = "read"
              \/ /\ past > 0
                 /\ hdr_raw' = [w |-> w, past_end |-> past, records |-> <<>>]
                 /\ hdr_pc' = "crashed"
    /\ UNCHANGED <<hdr_index, hdr_w, hdr_packed, hdr_unpacked, lutVars, msfVars, secVars, strVars, callVars, drvVars, eccVars>>

---------------------------------------------------------------------------
(* Segmented memory: the bytes of a data_buffer<char> *)

\* A value is <<kind, n, kids>>; kids is the set of chunks a checksum covers.
Zero == <<"zero", 0, {}>>
\* the 12 sync bytes 00 FF FF FF FF FF FF FF FF FF FF 00
SyncPattern == <<"sync", 0, {}>>
\* bytes that are not all zero, told apart by id
Data(id) == <<"data", id, {}>>
\* one byte
ByteVal(b) == IF b = 0 THEN Zero ELSE <<"byte", b, {}>>
\* the three MSF bytes
MsfVal(msf) ==
    IF msf = <<0, 0, 0>> THEN Zero
    ELSE <<"msf", msf[1] * 65536 + msf[2] * 256 + msf[3], {}>>

\* a chunk of len bytes at off; zero bytes are stored as no chunk at all
Chunk(off, len, val) == IF val = Zero THEN {} ELSE {<<off, len, val>>}

Overlaps(c, off, n) == c[1] < off + n /\ off < c[1] + c[2]
Inside(c, off, n) == off <= c[1] /\ c[1] + c[2] <= off + n

\* the n bytes at off, as chunks relative to off; a chunk that straddles
\* an end of the range is kept as a torn value
Region(mem, off, n) ==
    {<<c[1] - off, c[2], IF Inside(c, off, n) THEN c[3] ELSE <<"torn", c[1] - off, {}>>>> :
        c \in {d \in mem : Overlaps(d, off, n)}}

Shift(rel, off) == {<<c[1] + off, c[2], c[3]>> : c \in rel}

\* store the n bytes rel at off
Store(mem, off, n, rel) ==
    {c \in mem : ~Overlaps(c, off, n)} \cup Shift(rel, off)

\* the n bytes at off read as one value
ValAt(mem, off, n) ==
    LET r == Region(mem, off, n)
    IN IF r = {} THEN Zero
       ELSE IF \E c \in r : c[1] = 0 /\ c[2] = n THEN (CHOOSE c \in r : c[1] = 0)[3]
       ELSE <<"bytes", n, r>>

\* a data_buffer<char> of size bytes holding mem
CharBuffer(size, mem) ==
    [size |-> size, current_position |-> 0, start_position |-> 0, mem |-> mem]

---------------------------------------------------------------------------
(* EDC and ECC over the segmented memory *)

\* processor::is_gap
is_gap(mem, off, length) == Region(mem, off, length) = {}

\* processor::edc_compute: starts from 0, so zero bytes give 0
edc_compute(mem, off, size) ==
    LET r == Region(mem, off, size)
    IN IF r = {} THEN Zero ELSE <<"edc", size, r>>

\* processor::get32lsb
get32lsb(mem, off) == ValAt(mem, off, 4)

\* the 276 parity bytes of ecc_write_sector over 4 address bytes and the
\* 2060 bytes at data, as the part stored in the first 272 bytes (part 0)
\* and the part stored in the last 4 (part 1)
EccPart(address, mem, data, part) ==
    LET r == address \cup Shift(Region(mem, data, 2060), 4)
    IN IF r = {} THEN Zero ELSE <<"ecc", part, r>>

ecc_write_sector(address, mem, data) ==
    Chunk(0, 272, EccPart(address, mem, data, 0))
        \cup Chunk(272, 4, EccPart(address, mem, data, 1))

\* processor::ecc_check_sector: P and Q both compare equal
ecc_check_sector(address, mem, data, ecc) ==
    Region(mem, ecc, 276) = ecc_write_sector(address, mem, data)

zeroaddress == {}

---------------------------------------------------------------------------
(* enum optimizations and enum status_code *)

OO_REMOVE_SYNC == 1
OO_REMOVE_MSF == 2
OO_REMOVE_MODE == 4
OO_REMOVE_BLANKS == 8
OO_REMOVE_REDUNDANT_FLAG == 16
OO_REMOVE_ECC == 32
OO_REMOVE_EDC == 64
OO_REMOVE_GAP == 128

\* options & flag
Has(options, flag) == (options \div flag) % 2 = 1
\* options & ~flag
Without(options, flag) == IF Has(options, flag) THEN options - flag ELSE options
\* every bit of a is a bit of b
SubsetOf(a, b) ==
    \A flag \in {OO_REMOVE_SYNC, OO_REMOVE_MSF, OO_REMOVE_MODE, OO_REMOVE_BLANKS,
                 OO_REMOVE_REDUNDANT_FLAG, OO_REMOVE_ECC, OO_REMOVE_EDC, OO_REMOVE_GAP} :
        Has(a, flag) => Has(b, flag)

STATUS_ERROR_NO_ENOUGH_OUTPUT_BUFFER_SPACE == -4
STATUS_ERROR_NO_ENOUGH_OUTPUT_INDEX_SPACE == -3
STATUS_ERROR_NO_ENOUGH_INPUT_DATA == -2
STATUS_ERROR_NO_ENOUGH_SECTORS == -1
\* the enumerator after -1 takes the value 0, the same as STATUS_OK
STATUS_ERROR_WRONG_INDEX_DATA == 0
STATUS_OK == 0


---------------------------------------------------------------------------
(* processor::detect *)

\* detect with the Mode 2 form tests ahead of the non-XA gap test
detect_XaFirst(input) ==
    LET m == input.mem
        p == input.current_position
    IN IF ValAt(m, p, 12) # SyncPattern
       THEN IF is_gap(m, p, 2352) THEN ST_CDDA_GAP ELSE ST_CDDA
       ELSE IF ValAt(m, p + 15, 1) = ByteVal(1) /\ is_gap(m, p + 2068, 8)
       THEN IF /\ ecc_check_sector(Region(m, p + 12, 4), m, p + 16, p + 2076)
               /\ edc_compute(m, p, 2064) = get32lsb(m, p + 2064)
            THEN IF is_gap(m, p + 16, 2048) THEN ST_MODE1_GAP ELSE ST_MODE1
            ELSE ST_MODE1_RAW
       ELSE IF ValAt(m, p + 15, 1) # ByteVal(2) THEN ST_MODEX
       ELSE IF /\ ecc_check_sector(zeroaddress, m, p + 16, p + 2076)
               /\ edc_compute(m, p + 16, 2056) = get32lsb(m, p + 2072)
       THEN IF is_gap(m, p + 24, 2048) THEN ST_MODE2_XA1_GAP ELSE ST_MODE2_XA1
       ELSE IF edc_compute(m, p + 16, 2332) = get32lsb(m, p + 2348)
       THEN IF is_gap(m, p + 24, 2324) THEN ST_MODE2_XA2_GAP ELSE ST_MODE2_XA2
       ELSE IF is_gap(m, p + 16, 2336) THEN ST_MODE2_GAP
       ELSE IF ValAt(m, p + 16, 4) = ValAt(m, p + 20, 4) /\ is_gap(m, p + 24, 2328)
       THEN ST_MODE2_XA_GAP
       ELSE ST_MODE2

detect(input) ==
    LET m == input.mem
        p == input.current_position
    IN IF ValAt(m, p, 12) = SyncPattern
       THEN IF ValAt(m, p + 15, 1) = ByteVal(1) /\ is_gap(m, p + 2068, 8)
            THEN IF /\ ecc_check_sector(Region(m, p + 12, 4), m, p + 16, p + 2076)
                    /\ edc_compute(m, p, 2064) = get32lsb(m, p + 2064)
                 THEN IF is_gap(m, p + 16, 2048) THEN ST_MODE1_GAP ELSE ST_MODE1
                 ELSE ST_MODE1_RAW
            ELSE IF ValAt(m, p + 15, 1) = ByteVal(2)
            THEN IF is_gap(m, p + 16, 2336) THEN ST_MODE2_GAP
                 ELSE IF /\ ecc_check_sector(zeroaddress, m, p + 16, p + 2076)
                         /\ edc_compute(m, p + 16, 2056) = get32lsb(m, p + 2072)
                 THEN IF is_gap(m, p + 24, 2048) THEN ST_MODE2_XA1_GAP ELSE ST_MODE2_XA1
                 ELSE IF edc_compute(m, p + 16, 2332) = get32lsb(m, p + 2348)
                 THEN IF is_gap(m, p + 24, 2324) THEN ST_MODE2_XA2_GAP ELSE ST_MODE2_XA2
                 ELSE IF /\ ValAt(m, p + 16, 4) = ValAt(m, p + 20, 4)
                         /\ is_gap(m, p + 24, 2328)
                 THEN ST_MODE2_XA_GAP
                 ELSE ST_MODE2
            ELSE ST_MODEX
       ELSE IF is_gap(m, p, 2352) THEN ST_CDDA_GAP ELSE ST_CDDA

---------------------------------------------------------------------------
(* processor::check_optimizations *)

\* check_optimizations whose MSF check flips the flag instead of clearing it
check_optimizations_Toggle(input, sectorNumber, options, sectorType) ==
    IF /\ sectorType >= ST_MODE1
       /\ ValAt(input.mem, input.current_position + 12, 3)
            # MsfVal(sector_to_time(sectorNumber))
    THEN IF Has(options, OO_REMOVE_MSF) THEN options - OO_REMOVE_MSF
         ELSE options + OO_REMOVE_MSF
    ELSE options

\* check_optimizations that also gives up REMOVE_MODE once REMOVE_MSF is
\* no longer set
check_optimizations_Cascade(input, sectorNumber, options, sectorType) ==
    IF sectorType < ST_MODE1 THEN options
    ELSE IF ~Has(options, OO_REMOVE_MSF) THEN Without(options, OO_REMOVE_MODE)
    ELSE IF ValAt(input.mem, input.current_position + 12, 3)
                # MsfVal(sector_to_time(sectorNumber))
    THEN Without(options, OO_REMOVE_MSF)
    ELSE options

\* check_optimizations without the comparison of the two flag copies
check_optimizations_NoFlagCheck(input, sectorNumber, options, sectorType) ==
    IF /\ sectorType >= ST_MODE1
       /\ Has(options, OO_REMOVE_MSF)
       /\ ValAt(input.mem, input.current_position + 12, 3)
            # MsfVal(sector_to_time(sectorNumber))
    THEN Without(options, OO_REMOVE_MSF)
    ELSE options

\* check_optimizations that compares the MSF of audio sectors too
check_optimizations_AudioMsf(input, sectorNumber, options, sectorType) ==
    IF /\ Has(options, OO_REMOVE_MSF)
       /\ ValAt(input.mem, input.current_position + 12, 3)
            # MsfVal(sector_to_time(sectorNumber))
    THEN Without(options, OO_REMOVE_MSF)
    ELSE options

check_optimizations(input, sectorNumber, options, sectorType) ==
    IF sectorType = ST_CDDA_GAP \/ sectorType = ST_CDDA THEN options
    ELSE IF sectorType = ST_UNKNOWN THEN options
    ELSE
        LET m == input.mem
            p == input.current_position
            msfTypes == {ST_MODEX, ST_MODE1, ST_MODE1_RAW, ST_MODE1_GAP, ST_MODE2,
                         ST_MODE2_XA_GAP, ST_MODE2_XA1, ST_MODE2_XA1_GAP,
                         ST_MODE2_XA2, ST_MODE2_XA2_GAP}
            xaTypes == {ST_MODE2_XA_GAP, ST_MODE2_XA1, ST_MODE2_XA1_GAP,
                        ST_MODE2_XA2, ST_MODE2_XA2_GAP}
            opts1 == IF /\ Has(options, OO_REMOVE_MSF)
                        /\ sectorType \in msfTypes
                        /\ ValAt(m, p + 12, 3) # MsfVal(sector_to_time(sectorNumber))
                     THEN Without(options, OO_REMOVE_MSF)
                     ELSE options
        IN IF /\ sectorType \in xaTypes
              /\ Has(opts1, OO_REMOVE_REDUNDANT_FLAG)
              /\ ValAt(m, p + 16, 4) # ValAt(m, p + 20, 4)
           THEN Without(opts1, OO_REMOVE_REDUNDANT_FLAG)
           ELSE opts1

---------------------------------------------------------------------------
(* processor::get_encoded_sector_size *)

\* "if (!(options & flag)) output_size += n"
Kept(options, flag, n) == IF Has(options, flag) THEN 0 ELSE n

SizeHeader(options) ==
    Kept(options, OO_REMOVE_SYNC, 12) + Kept(options, OO_REMOVE_MSF, 3)

SizeFlags(options) == IF Has(options, OO_REMOVE_REDUNDANT_FLAG) THEN 4 ELSE 8

\* the statements under case ST_MODE2_XA1 / ST_MODE2_XA1_GAP
SizeCaseXa1(type, options) ==
    SizeHeader(options) + Kept(options, OO_REMOVE_MODE, 1) + SizeFlags(options)
        + (IF type = ST_MODE2_XA1 \/ ~Has(options, OO_REMOVE_GAP) THEN 2048 ELSE 0)
        + Kept(options, OO_REMOVE_EDC, 4)
        + Kept(options, OO_REMOVE_ECC, 276)

get_encoded_sector_size(type, options) ==
    IF type \in {ST_CDDA, ST_CDDA_GAP}
    THEN IF type = ST_CDDA \/ ~Has(options, OO_REMOVE_GAP) THEN 2352 ELSE 0
    ELSE IF type \in {ST_MODE1, ST_MODE1_GAP, ST_MODE1_RAW}
    THEN SizeHeader(options) + Kept(options, OO_REMOVE_MODE, 1)
        + (IF type = ST_MODE1 \/ type = ST_MODE1_RAW \/ ~Has(options, OO_REMOVE_GAP)
           THEN 2048 ELSE 0)
        + (IF ~Has(options, OO_REMOVE_EDC) \/ type = ST_MODE1_RAW THEN 4 ELSE 0)
        + Kept(options, OO_REMOVE_BLANKS, 8)
        + (IF ~Has(options, OO_REMOVE_ECC) \/ type = ST_MODE1_RAW THEN 276 ELSE 0)
    ELSE IF type \in {ST_MODE2, ST_MODE2_GAP}
    THEN SizeHeader(options) + Kept(options, OO_REMOVE_MODE, 1)
        + (IF type = ST_MODE2 \/ ~Has(options, OO_REMOVE_GAP) THEN 2336 ELSE 0)
    ELSE IF type = ST_MODE2_XA_GAP
    THEN \* no break after this case: control falls into the next one
        SizeHeader(options) + Kept(options, OO_REMOVE_MODE, 1) + SizeFlags(options)
        + Kept(options, OO_REMOVE_GAP, 2328)
        + SizeCaseXa1(type, options)
    ELSE IF type \in {ST_MODE2_XA1, ST_MODE2_XA1_GAP}
    THEN SizeCaseXa1(type, options)
    ELSE IF type \in {ST_MODE2_XA2, ST_MODE2_XA2_GAP}
    THEN SizeHeader(options) + Kept(options, OO_REMOVE_MODE, 1) + SizeFlags(options)
        + (IF type = ST_MODE2_XA2 \/ ~Has(options, OO_REMOVE_GAP) THEN 2324 ELSE 0)
        + Kept(options, OO_REMOVE_EDC, 4)
    ELSE IF type = ST_MODEX
    THEN SizeHeader(options) + 2337
    ELSE 0

---------------------------------------------------------------------------
(* processor::encode_sector and the encoders of each sector layout.       *)
(* io is the pair [input, output] of data_buffer<char> the call works on. *)

\* data_buffer::update_start_position
update_start_position(buf) == [buf EXCEPT !.start_position = buf.current_position]
\* data_buffer::reset_positions
reset_positions(buf) == [buf EXCEPT !.start_position = 0, !.current_position = 0]
\* data_buffer::revert_current_position
revert_current_position(buf) == [buf EXCEPT !.current_position = buf.start_position]
\* data_buffer<char>::get_available_items
get_available_items(buf) ==
    IF buf.current_position > buf.size THEN 0 ELSE buf.size - buf.current_position

\* "if (cond) { memcpy(output, input, kept); output.current_position += kept; }
\*  input.current_position += len;"
EncField(io, len, kept) ==
    [input |-> [io.input EXCEPT !.current_position = @ + len],
     output |-> IF kept = 0 THEN io.output
                ELSE [io.output EXCEPT
                        !.mem = Store(@, io.output.current_position, kept,
                                      Region(io.input.mem, io.input.current_position, kept)),
                        !.current_position = @ + kept]]

RECURSIVE EncFields(_, _)
EncFields(io, fields) ==
    IF fields = <<>> THEN io
    ELSE EncFields(EncField(io, Head(fields)[1], Head(fields)[2]), Tail(fields))

\* the two update_start_position calls that end every encoder
EncDone(io) ==
    [input |-> update_start_position(io.input),
     output |-> update_start_position(io.output)]

encode_sector_cdda(io, type, options) ==
    EncDone(EncFields(io, <<
        <<2352, IF type = ST_CDDA \/ ~Has(options, OO_REMOVE_GAP) THEN 2352 ELSE 0>> >>))

\* encode_sector_mode_1 without the exception for ST_MODE1_RAW
encode_sector_mode_1_NoRaw(io, type, options) ==
    EncDone(EncFields(io, <<
        <<12, Kept(options, OO_REMOVE_SYNC, 12)>>,
        <<3, Kept(options, OO_REMOVE_MSF, 3)>>,
        <<1, Kept(options, OO_REMOVE_MODE, 1)>>,
        <<2048, IF type = ST_MODE1 \/ type = ST_MODE1_RAW \/ ~Has(options, OO_REMOVE_GAP)
                THEN 2048 ELSE 0>>,
        <<4, Kept(options, OO_REMOVE_EDC, 4)>>,
        <<8, Kept(options, OO_REMOVE_BLANKS, 8)>>,
        <<276, Kept(options, OO_REMOVE_ECC, 276)>> >>))

\* encode_sector_mode_1 dropping the data of every Mode 1 sector under
\* REMOVE_GAP
encode_sector_mode_1_DropData(io, type, options) ==
    EncDone(EncFields(io, <<
        <<12, Kept(options, OO_REMOVE_SYNC, 12)>>,
        <<3, Kept(options, OO_REMOVE_MSF, 3)>>,
        <<1, Kept(options, OO_REMOVE_MODE, 1)>>,
        <<2048, Kept(options, OO_REMOVE_GAP, 2048)>>,
        <<4, IF ~Has(options, OO_REMOVE_EDC) \/ type = ST_MODE1_RAW THEN 4 ELSE 0>>,
        <<8, Kept(options, OO_REMOVE_BLANKS, 8)>>,
        <<276, IF ~Has(options, OO_REMOVE_ECC) \/ type = ST_MODE1_RAW THEN 276 ELSE 0>> >>))

encode_sector_mode_1(io, type, options) ==
    EncDone(EncFields(io, <<
        <<12, Kept(options, OO_REMOVE_SYNC, 12)>>,
        <<3, Kept(options, OO_REMOVE_MSF, 3)>>,
        <<1, Kept(options, OO_REMOVE_MODE, 1)>>,
        <<2048, IF type = ST_MODE1 \/ type = ST_MODE1_RAW \/ ~Has(options, OO_REMOVE_GAP)
                THEN 2048 ELSE 0>>,
        <<4, IF ~Has(options, OO_REMOVE_EDC) \/ type = ST_MODE1_RAW THEN 4 ELSE 0>>,
        <<8, Kept(options, OO_REMOVE_BLANKS, 8)>>,
        <<276, IF ~Has(options, OO_REMOVE_ECC) \/ type = ST_MODE1_RAW THEN 276 ELSE 0>> >>))

encode_sector_mode_2(io, type, options) ==
    EncDone(EncFields(io, <<
        <<12, Kept(options, OO_REMOVE_SYNC, 12)>>,
        <<3, Kept(options, OO_REMOVE_MSF, 3)>>,
        <<1, Kept(options, OO_REMOVE_MODE, 1)>>,
        <<2336, IF type = ST_MODE2 \/ ~Has(options, OO_REMOVE_GAP) THEN 2336 ELSE 0>> >>))

encode_sector_mode_2_xa_gap(io, type, options) ==
    EncDone(EncFields(io, <<
        <<12, Kept(options, OO_REMOVE_SYNC, 12)>>,
        <<3, Kept(options, OO_REMOVE_MSF, 3)>>,
        <<1, Kept(options, OO_REMOVE_MODE, 1)>>,
        <<8, SizeFlags(options)>>,
        <<2328, Kept(options, OO_REMOVE_GAP, 2328)>> >>))

encode_sector_mode_2_xa_1(io, type, options) ==
    EncDone(EncFields(io, <<
        <<12, Kept(options, OO_REMOVE_SYNC, 12)>>,
        <<3, Kept(options, OO_REMOVE_MSF, 3)>>,
        <<1, Kept(options, OO_REMOVE_MODE, 1)>>,
        <<8, SizeFlags(options)>>,
        <<2048, IF type = ST_MODE2_XA1 \/ ~Has(options, OO_REMOVE_GAP) THEN 2048 ELSE 0>>,
        <<4, Kept(options, OO_REMOVE_EDC, 4)>>,
        <<276, Kept(options, OO_REMOVE_ECC, 276)>> >>))

encode_sector_mode_2_xa_2(io, type, options) ==
    EncDone(EncFields(io, <<
        <<12, Kept(options, OO_REMOVE_SYNC, 12)>>,
        <<3, Kept(options, OO_REMOVE_MSF, 3)>>,
        <<1, Kept(options, OO_REMOVE_MODE, 1)>>,
        <<8, SizeFlags(options)>>,
        <<2324, IF type = ST_MODE2_XA2 \/ ~Has(options, OO_REMOVE_GAP) THEN 2324 ELSE 0>>,
        <<4, Kept(options, OO_REMOVE_EDC, 4)>> >>))

encode_sector_mode_X(io, type, options) ==
    EncDone(EncFields(io, <<
        <<12, Kept(options, OO_REMOVE_SYNC, 12)>>,
        <<3, Kept(options, OO_REMOVE_MSF, 3)>>,
        <<2337, 2337>> >>))

\* ST_UNKNOWN matches no case: nothing is read or written
encode_sector(io, type, options) ==
    IF type \in {ST_CDDA, ST_CDDA_GAP} THEN encode_sector_cdda(io, type, options)
    ELSE IF type \in {ST_MODE1, ST_MODE1_GAP, ST_MODE1_RAW}
    THEN encode_sector_mode_1(io, type, options)
    ELSE IF type \in {ST_MODE2, ST_MODE2_GAP} THEN encode_sector_mode_2(io, type, options)
    ELSE IF type = ST_MODE2_XA_GAP THEN encode_sector_mode_2_xa_gap(io, type, options)
    ELSE IF type \in {ST_MODE2_XA1, ST_MODE2_XA1_GAP}
    THEN encode_sector_mode_2_xa_1(io, type, options)
    ELSE IF type \in {ST_MODE2_XA2, ST_MODE2_XA2_GAP}
    THEN encode_sector_mode_2_xa_2(io, type, options)
    ELSE IF type = ST_MODEX THEN encode_sector_mode_X(io, type, options)
    ELSE io

---------------------------------------------------------------------------
(* processor::decode_sector and the decoders of each sector layout *)

\* "if (cond) { memcpy(output, input, len); input.current_position += len; }
\*  else { write the bytes rel }  output.current_position += len;"
DecField(io, len, copied, rel) ==
    [input |-> IF copied THEN [io.input EXCEPT !.current_position = @ + len]
               ELSE io.input,
     output |-> [io.output EXCEPT
                    !.mem = Store(@, io.output.current_position, len,
                                  IF copied
                                  THEN Region(io.input.mem, io.input.current_position, len)
                                  ELSE rel),
                    !.current_position = @ + len]]

\* the flag bytes read as 8 stored bytes whatever the flags
DecFlags_Always8(io, options) == DecField(io, 8, TRUE, {})

\* the flag bytes of the XA layouts: 8 copied, or 4 copied and repeated
DecFlags(io, options) ==
    IF ~Has(options, OO_REMOVE_REDUNDANT_FLAG) THEN DecField(io, 8, TRUE, {})
    ELSE LET flag == Region(io.input.mem, io.input.current_position, 4)
         IN [input |-> [io.input EXCEPT !.current_position = @ + 4],
             output |-> [io.output EXCEPT
                            !.mem = Store(@, io.output.current_position, 8,
                                          flag \cup Shift(flag, 4)),
                            !.current_position = @ + 8]]

\* the update_start_position call that ends every decoder
DecDone(io) == [io EXCEPT !.output = update_start_position(io.output)]

\* put32lsb(output, edc_compute(output.get_start_data_position() + off, size))
EdcField(io, off, size) ==
    Chunk(0, 4, edc_compute(io.output.mem, io.output.start_position + off, size))

decode_sector_cdda(io, type, options) ==
    DecDone(DecField(io, 2352, type = ST_CDDA \/ ~Has(options, OO_REMOVE_GAP), {}))

decode_sector_mode_1(io, type, options) ==
    LET mode == DecField(io, 1, ~Has(options, OO_REMOVE_MODE), Chunk(0, 1, ByteVal(1)))
        data == DecField(mode, 2048,
                         type = ST_MODE1 \/ type = ST_MODE1_RAW \/ ~Has(options, OO_REMOVE_GAP),
                         {})
        edc == DecField(data, 4, ~Has(options, OO_REMOVE_EDC) \/ type = ST_MODE1_RAW,
                        EdcField(data, 0, 2064))
        blank == DecField(edc, 8, ~Has(options, OO_REMOVE_BLANKS), {})
        start == blank.output.start_position
    IN DecDone(DecField(blank, 276, ~Has(options, OO_REMOVE_ECC) \/ type = ST_MODE1_RAW,
                        ecc_write_sector(Region(blank.output.mem, start + 12, 4),
                                         blank.output.mem, start + 16)))

decode_sector_mode_2(io, type, options) ==
    LET mode == DecField(io, 1, ~Has(options, OO_REMOVE_MODE), Chunk(0, 1, ByteVal(2)))
    IN DecDone(DecField(mode, 2336, type = ST_MODE2 \/ ~Has(options, OO_REMOVE_GAP), {}))

decode_sector_mode_2_xa_gap(io, type, options) ==
    LET mode == DecField(io, 1, ~Has(options, OO_REMOVE_MODE), Chunk(0, 1, ByteVal(2)))
        flags == DecFlags(mode, options)
    IN DecDone(DecField(flags, 2328, ~Has(options, OO_REMOVE_GAP), {}))

decode_sector_mode_2_xa_1(io, type, options) ==
    LET mode == DecField(io, 1, ~Has(options, OO_REMOVE_MODE), Chunk(0, 1, ByteVal(2)))
        flags == DecFlags(mode, options)
        data == DecField(flags, 2048, type = ST_MODE2_XA1 \/ ~Has(options, OO_REMOVE_GAP), {})
        edc == DecField(data, 4, ~Has(options, OO_REMOVE_EDC), EdcField(data, 16, 2056))
    IN DecDone(DecField(edc, 276, ~Has(options, OO_REMOVE_ECC),
                        ecc_write_sector(zeroaddress, edc.output.mem,
                                         edc.output.start_position + 16)))

decode_sector_mode_2_xa_2(io, type, options) ==
    LET mode == DecField(io, 1, ~Has(options, OO_REMOVE_MODE), Chunk(0, 1, ByteVal(2)))
        flags == DecFlags(mode, options)
        data == DecField(flags, 2324, type = ST_MODE2_XA2 \/ ~Has(options, OO_REMOVE_GAP), {})
    IN DecDone(DecField(data, 4, ~Has(options, OO_REMOVE_EDC), EdcField(data, 16, 2332)))

decode_sector_mode_X(io, type, options) ==
    DecDone(DecField(io, 2337, TRUE, {}))

\* data_buffer::write of the three MSF bytes: nothing is written when
\* they do not fit
WriteMsf(output, msf) ==
    IF output.current_position + 3 > output.size THEN output
    ELSE [output EXCEPT !.mem = Store(@, output.current_position, 3,
                                      Chunk(0, 3, MsfVal(msf)))]

decode_sector(io, type, sector_number, options) ==
    LET sync == DecField(io, 12, ~Has(options, OO_REMOVE_SYNC), Chunk(0, 12, SyncPattern))
        msf == IF ~Has(options, OO_REMOVE_MSF) THEN DecField(sync, 3, TRUE, {})
               ELSE [sync EXCEPT
                        !.output = [WriteMsf(sync.output, sector_to_time(sector_number))
                                        EXCEPT !.current_position = @ + 3]]
        head == IF type >= ST_MODE1 THEN msf ELSE io
    IN IF type \in {ST_CDDA, ST_CDDA_GAP} THEN decode_sector_cdda(head, type, options)
       ELSE IF type \in {ST_MODE1, ST_MODE1_GAP, ST_MODE1_RAW}
       THEN decode_sector_mode_1(head, type, options)
       ELSE IF type \in {ST_MODE2, ST_MODE2_GAP} THEN decode_sector_mode_2(head, type, options)
       ELSE IF type = ST_MODE2_XA_GAP THEN decode_sector_mode_2_xa_gap(head, type, options)
       ELSE IF type \in {ST_MODE2_XA1, ST_MODE2_XA1_GAP}
       THEN decode_sector_mode_2_xa_1(head, type, options)
       ELSE IF type \in {ST_MODE2_XA2, ST_MODE2_XA2_GAP}
       THEN decode_sector_mode_2_xa_2(head, type, options)
       ELSE IF type = ST_MODEX THEN decode_sector_mode_X(head, type, options)
       ELSE head

---------------------------------------------------------------------------
(* processor::encode_stream and processor::decode_stream *)

\* data_buffer<sector_type>::get_available_items
IndexAvailable(index) ==
    IF index.current_position > Len(index.buffer) THEN 0
    ELSE Len(index.buffer) - index.current_position

\* the analysis loop storing every variant in the slot at the index cursor
RECURSIVE Analyse_SameSlot(_, _, _, _, _)
Analyse_SameSlot(st, i, inputSectorsNumber, startSectorNumber, useTheBestOptimizations) ==
    IF i >= inputSectorsNumber THEN st
    ELSE LET type == detect(st.input)
             slot == st.sectorsIndex.current_position + 1
         IN Analyse_SameSlot(
                [input |-> [st.input EXCEPT !.current_position = @ + 2352],
                 sectorsIndex |-> [st.sectorsIndex EXCEPT !.buffer[slot] = type],
                 options |-> IF useTheBestOptimizations
                             THEN check_optimizations(st.input, startSectorNumber + i,
                                                      st.options, type)
                             ELSE st.options],
                i + 1, inputSectorsNumber, startSectorNumber, useTheBestOptimizations)

\* the analysis loop: st = [input, sectorsIndex, options]
RECURSIVE Analyse(_, _, _, _, _)
Analyse(st, i, inputSectorsNumber, startSectorNumber, useTheBestOptimizations) ==
    IF i >= inputSectorsNumber THEN st
    ELSE LET type == detect(st.input)
             slot == st.sectorsIndex.current_position + i + 1
         IN Analyse(
                [input |-> [st.input EXCEPT !.current_position = @ + 2352],
                 sectorsIndex |-> [st.sectorsIndex EXCEPT !.buffer[slot] = type],
                 options |-> IF useTheBestOptimizations
                             THEN check_optimizations(st.input, startSectorNumber + i,
                                                      st.options, type)
                             ELSE st.options],
                i + 1, inputSectorsNumber, startSectorNumber, useTheBestOptimizations)

\* the sum of get_encoded_sector_size(sectorsIndex[i], options) for i < n
RECURSIVE CalculatedSize(_, _, _)
CalculatedSize(sectorsIndex, n, options) ==
    IF n = 0 THEN 0
    ELSE CalculatedSize(sectorsIndex, n - 1, options)
            + get_encoded_sector_size(At(sectorsIndex, n - 1), options)

\* the emission loop: st = [io, sectorsIndex]
RECURSIVE Emit(_, _, _, _)
Emit(st, i, inputSectorsNumber, options) ==
    IF i >= inputSectorsNumber THEN st
    ELSE Emit([io |-> encode_sector(st.io, At(st.sectorsIndex, 0), options),
               sectorsIndex |-> [st.sectorsIndex EXCEPT !.current_position = @ + 1]],
              i + 1, inputSectorsNumber, options)

\* encode_stream that emits first and compares the sizes afterwards
encode_stream_LateCheck(input, output, sectorsIndex, inputSectorsNumber, startSectorNumber, options, useTheBestOptimizations) ==
    LET unchanged == [status |-> STATUS_OK, input |-> input, output |-> output,
                      sectorsIndex |-> sectorsIndex, options |-> options]
    IN IF input.size < inputSectorsNumber * 2352
       THEN [unchanged EXCEPT !.status = STATUS_ERROR_NO_ENOUGH_INPUT_DATA]
       ELSE IF IndexAvailable(sectorsIndex) < inputSectorsNumber
       THEN [unchanged EXCEPT !.status = STATUS_ERROR_NO_ENOUGH_OUTPUT_INDEX_SPACE]
       ELSE
        LET analysed == Analyse([input |-> input, sectorsIndex |-> sectorsIndex,
                                 options |-> options],
                                0, inputSectorsNumber, startSectorNumber,
                                useTheBestOptimizations)
            emitted == Emit([io |-> [input |-> revert_current_position(analysed.input),
                                     output |-> output],
                             sectorsIndex |-> analysed.sectorsIndex],
                            0, inputSectorsNumber, analysed.options)
        IN [status |-> IF CalculatedSize(analysed.sectorsIndex, inputSectorsNumber,
                                         analysed.options) > get_available_items(output)
                       THEN STATUS_ERROR_NO_ENOUGH_OUTPUT_BUFFER_SPACE ELSE STATUS_OK,
            input |-> emitted.io.input, output |-> emitted.io.output,
            sectorsIndex |-> emitted.sectorsIndex, options |-> analysed.options]

encode_stream(input, output, sectorsIndex, inputSectorsNumber, startSectorNumber, options, useTheBestOptimizations) ==
    LET unchanged == [status |-> STATUS_OK, input |-> input, output |-> output,
                      sectorsIndex |-> sectorsIndex, options |-> options]
    IN IF input.size < inputSectorsNumber * 2352
       THEN [unchanged EXCEPT !.status = STATUS_ERROR_NO_ENOUGH_INPUT_DATA]
       ELSE IF IndexAvailable(sectorsIndex) < inputSectorsNumber
       THEN [unchanged EXCEPT !.status = STATUS_ERROR_NO_ENOUGH_OUTPUT_INDEX_SPACE]
       ELSE
        LET analysed == Analyse([input |-> input, sectorsIndex |-> sectorsIndex,
                                 options |-> options],
                                0, inputSectorsNumber, startSectorNumber,
                                useTheBestOptimizations)
            reverted == revert_current_position(analysed.input)
            outputCalculatedSize == CalculatedSize(analysed.sectorsIndex, inputSectorsNumber,
                                                   analysed.options)
        IN IF outputCalculatedSize > get_available_items(output)
           THEN [status |-> STATUS_ERROR_NO_ENOUGH_OUTPUT_BUFFER_SPACE,
                 input |-> reverted, output |-> output,
                 sectorsIndex |-> analysed.sectorsIndex, options |-> analysed.options]
           ELSE LET emitted == Emit([io |-> [input |-> reverted, output |-> output],
                                     sectorsIndex |-> analysed.sectorsIndex],
                                    0, inputSectorsNumber, analysed.options)
                IN [status |-> STATUS_OK,
                    input |-> emitted.io.input, output |-> emitted.io.output,
                    sectorsIndex |-> emitted.sectorsIndex, options |-> analysed.options]

\* the decoding loop
RECURSIVE DecodeLoop(_, _, _, _, _, _)
DecodeLoop(io, sectorsIndex, i, inputSectorsNumber, startSectorNumber, options) ==
    IF i >= inputSectorsNumber THEN io
    ELSE DecodeLoop(decode_sector(io, At(sectorsIndex, i), startSectorNumber + i, options),
                    sectorsIndex, i + 1, inputSectorsNumber, startSectorNumber, options)

decode_stream(input, output, sectorsIndex, inputSectorsNumber, startSectorNumber, options) ==
    LET unchanged == [status |-> STATUS_OK, input |-> input, output |-> output,
                      sectorsIndex |-> sectorsIndex]
    IN IF Len(sectorsIndex.buffer) = 0
       THEN [unchanged EXCEPT !.status = STATUS_ERROR_WRONG_INDEX_DATA]
       ELSE IF inputSectorsNumber * 2352 > output.size
       THEN [unchanged EXCEPT !.status = STATUS_ERROR_NO_ENOUGH_OUTPUT_BUFFER_SPACE]
       ELSE IF CalculatedSize(sectorsIndex, inputSectorsNumber, options)
                > get_available_items(input)
       THEN [unchanged EXCEPT !.status = STATUS_ERROR_NO_ENOUGH_INPUT_DATA]
       ELSE LET io == DecodeLoop([input |-> input, output |-> output], sectorsIndex, 0,
                                 inputSectorsNumber, startSectorNumber, options)
            IN [status |-> STATUS_OK, input |-> io.input, output |-> io.output,
                sectorsIndex |-> [sectorsIndex EXCEPT
                                    !.current_position = @ + inputSectorsNumber]]

---------------------------------------------------------------------------
(* Sectors to encode.  A sector is described by its layout, by whether  *)
(* its MSF bytes are those of its sector number, and by whether the two *)
(* copies of its XA flag bytes agree.                                   *)

Header(mode, msf) ==
    Chunk(0, 12, SyncPattern) \cup Chunk(12, 3, MsfVal(msf)) \cup Chunk(15, 1, ByteVal(mode))

\* the parity bytes of a sector whose ECC verifies
WithEcc(sector, address) == sector \cup Shift(ecc_write_sector(address, sector, 16), 2076)

Mode1Data(gap) ==
    IF gap THEN {} ELSE {<<16, 4, Data(1)>>, <<20, 4, Data(2)>>, <<24, 2040, Data(3)>>}

Mode1Sector(msf, gap) ==
    LET data == Header(1, msf) \cup Mode1Data(gap)
        edc == data \cup Chunk(2064, 4, edc_compute(data, 0, 2064))
    IN WithEcc(edc, Region(edc, 12, 4))

\* a Mode 1 sector whose EDC bytes are not the EDC of its data
Mode1RawSector(msf) ==
    LET edc == Header(1, msf) \cup Mode1Data(FALSE) \cup {<<2064, 4, Data(4)>>}
    IN WithEcc(edc, Region(edc, 12, 4))

XaFlags(flags_eq) == {<<16, 4, Data(1)>>, <<20, 4, Data(IF flags_eq THEN 1 ELSE 2)>>}

Xa1Sector(msf, flags_eq, gap) ==
    LET data == Header(2, msf) \cup XaFlags(flags_eq)
                    \cup (IF gap THEN {}
                          ELSE {<<24, 2040, Data(3)>>, <<2064, 4, Data(4)>>, <<2068, 4, Data(5)>>})
        edc == data \cup Chunk(2072, 4, edc_compute(data, 16, 2056))
    IN WithEcc(edc, zeroaddress)

Xa2Sector(msf, flags_eq, gap) ==
    LET data == Header(2, msf) \cup XaFlags(flags_eq)
                    \cup (IF gap THEN {}
                          ELSE {<<24, 2040, Data(3)>>, <<2064, 4, Data(4)>>, <<2068, 4, Data(5)>>,
                                <<2072, 4, Data(6)>>, <<2076, 272, Data(7)>>})
    IN data \cup Chunk(2348, 4, edc_compute(data, 16, 2332))

Mode2Sector(msf) ==
    Header(2, msf) \cup XaFlags(FALSE) \cup {<<24, 2040, Data(3)>>, <<2348, 4, Data(8)>>}

Kinds == {"cdda", "cdda_gap", "mode1", "mode1_gap", "mode1_raw", "mode2", "mode2_gap",
          "xa_gap", "xa1", "xa1_gap", "xa2", "xa2_gap", "modex", "mode1_blanks"}

\* the 2352 bytes of the sector described by d when it is sector number n
SectorBytes(d, n) ==
    LET msf == sector_to_time(IF d.msf_ok THEN n ELSE n + 75)
    IN CASE d.kind = "cdda" -> {<<0, 12, Data(9)>>, <<24, 2040, Data(3)>>}
         [] d.kind = "cdda_gap" -> {}
         [] d.kind = "mode1" -> Mode1Sector(msf, FALSE)
         [] d.kind = "mode1_gap" -> Mode1Sector(msf, TRUE)
         [] d.kind = "mode1_raw" -> Mode1RawSector(msf)
         [] d.kind = "mode2" -> Mode2Sector(msf)
         [] d.kind = "mode2_gap" -> Header(2, msf)
         [] d.kind = "xa_gap" -> Header(2, msf) \cup XaFlags(TRUE)
         [] d.kind = "xa1" -> Xa1Sector(msf, d.flags_eq, FALSE)
         [] d.kind = "xa1_gap" -> Xa1Sector(msf, d.flags_eq, TRUE)
         [] d.kind = "xa2" -> Xa2Sector(msf, d.flags_eq, FALSE)
         [] d.kind = "xa2_gap" -> Xa2Sector(msf, d.flags_eq, TRUE)
         [] d.kind = "modex" -> Header(3, msf) \cup {<<24, 2040, Data(3)>>}
         [] d.kind = "mode1_blanks" -> Mode1Sector(msf, FALSE) \cup {<<2068, 4, Data(5)>>}

\* sectors without MSF or flag bytes come in one form only
SectorPool ==
    {d \in [kind : Kinds, msf_ok : BOOLEAN, flags_eq : BOOLEAN] :
        /\ d.kind \in {"cdda", "cdda_gap"} => d.msf_ok
        /\ d.kind \notin {"xa1", "xa1_gap", "xa2", "xa2_gap"} => d.flags_eq}

\* the bytes of an image of sectors numbered from startSectorNumber
RECURSIVE ImageBytes(_, _, _)
ImageBytes(sectors, k, startSectorNumber) ==
    IF k > Len(sectors) THEN {}
    ELSE Shift(SectorBytes(sectors[k], startSectorNumber + k - 1), (k - 1) * 2352)
            \cup ImageBytes(sectors, k + 1, startSectorNumber)

---------------------------------------------------------------------------
(* One sector: detect, encode_sector, reset_positions, decode_sector *)

StartSectors == {1, 150}
AllOptions == 0..255

SecInit ==
    /\ sec_pc = "start"
    /\ sec_image \in SectorPool
    /\ sec_number \in StartSectors
    /\ sec_options \in AllOptions
    /\ sec_type = ST_UNKNOWN
    /\ sec_input = CharBuffer(2352, SectorBytes(sec_image, sec_number))
    /\ sec_process = CharBuffer(2352, {})
    /\ sec_output = CharBuffer(2352, {})

Detect ==
    /\ sec_pc = "start"
    /\ sec_type' = detect(sec_input)
    /\ sec_pc' = "detected"
    /\ UNCHANGED <<sec_image, sec_number, sec_options, sec_input, sec_process, sec_output,
                   lutVars, msfVars, hdrVars, strVars, callVars, drvVars, eccVars>>

EncodeSector ==
    /\ sec_pc = "detected"
    /\ \E io \in {encode_sector([input |-> sec_input, output |-> sec_process],
                               sec_type, sec_options)} :
          /\ sec_input' = io.input
          /\ sec_process' = io.output
    /\ sec_pc' = "encoded"
    /\ UNCHANGED <<sec_image, sec_number, sec_options, sec_type, sec_output,
                   lutVars, msfVars, hdrVars, strVars, callVars, drvVars, eccVars>>

\* inputBuffer.reset_positions(); processBuffer.reset_positions();
ResetSector ==
    /\ sec_pc = "encoded"
    /\ sec_input' = reset_positions(sec_input)
    /\ sec_process' = reset_positions(sec_process)
    /\ sec_pc' = "rewound"
    /\ UNCHANGED <<sec_image, sec_number, sec_options, sec_type, sec_output,
                   lutVars, msfVars, hdrVars, strVars, callVars, drvVars, eccVars>>

DecodeSector ==
    /\ sec_pc = "rewound"
    /\ \E io \in {decode_sector([input |-> sec_process, output |-> sec_output],
                               sec_type, sec_number, sec_options)} :
          /\ sec_process' = io.input
          /\ sec_output' = io.output
    /\ sec_pc' = "decoded"
    /\ UNCHANGED <<sec_image, sec_number, sec_options, sec_type, sec_input,
                   lutVars, msfVars, hdrVars, strVars, callVars, drvVars, eccVars>>

---------------------------------------------------------------------------
(* A stream: encode_stream, optionally a second pass over the same     *)
(* sectors, then decode_stream                                         *)

MaxSectors == 2
MaxPasses == 2

\* the sectors a stream is made of: one of every layout family, a data
\* and a gap sector whose MSF is not that of their number, and an XA
\* sector whose two flag copies differ
StreamPool ==
    {d \in SectorPool :
        \/ d.kind \in {"cdda_gap", "mode1", "mode1_raw", "xa_gap", "xa2_gap", "modex"}
                /\ d.msf_ok /\ d.flags_eq
        \/ d.kind \in {"mode1", "mode2_gap"} /\ ~d.msf_ok
        \/ d.kind = "xa1" /\ d.msf_ok /\ ~d.flags_eq}

Images == UNION {[1..n -> StreamPool] : n \in 1..MaxSectors}

StrInit ==
    /\ pc = "start"
    /\ image \in Images
    /\ startSector = 150
    /\ useBest \in BOOLEAN
    /\ passes = 0
    /\ inputBuffer = CharBuffer(2352 * Len(image), ImageBytes(image, 1, startSector))
    /\ processBuffer = CharBuffer(2352 * Len(image), {})
    /\ outputBuffer = CharBuffer(2352 * Len(image), {})
    /\ sectorIndex = Buffer([k \in 1..Len(image) |-> ST_UNKNOWN])
    /\ usedOptimizations \in AllOptions
    /\ resultedOptimizations = usedOptimizations
    /\ negotiated = usedOptimizations
    /\ encodeStatus = STATUS_OK
    /\ decodeStatus = STATUS_OK

EncodeStream ==
    /\ pc \in {"start", "rewound"}
    /\ passes < MaxPasses
    /\ \E r \in {encode_stream(inputBuffer, processBuffer, sectorIndex, Len(image),
                              startSector, resultedOptimizations, useBest)} :
          /\ inputBuffer' = r.input
          /\ processBuffer' = r.output
          /\ sectorIndex' = r.sectorsIndex
          /\ resultedOptimizations' = r.options
          /\ negotiated' = IF passes = 0 THEN r.options ELSE negotiated
          /\ encodeStatus' = r.status
    /\ passes' = passes + 1
    /\ pc' = "encoded"
    /\ UNCHANGED <<image, startSector, useBest, outputBuffer,
                   usedOptimizations, decodeStatus, lutVars, msfVars, hdrVars, secVars, callVars, drvVars, eccVars>>

\* index.reset_positions(); input_buffer.reset_positions();
\* output_buffer.reset_positions(); before the next pass
Rewind ==
    /\ pc = "encoded"
    /\ passes < MaxPasses
    /\ sectorIndex' = reset_positions(sectorIndex)
    /\ inputBuffer' = reset_positions(inputBuffer)
    /\ processBuffer' = reset_positions(processBuffer)
    /\ pc' = "rewound"
    /\ UNCHANGED <<image, startSector, useBest, passes, outputBuffer,
                   usedOptimizations, resultedOptimizations, negotiated,
                   encodeStatus, decodeStatus, lutVars, msfVars, hdrVars, secVars, callVars, drvVars, eccVars>>

\* processBuffer.reset_positions(); sectorIndex.reset_positions();
\* after the one encode_stream call of the round-trip test
ResetPositions ==
    /\ pc = "encoded"
    /\ passes = 1
    /\ processBuffer' = reset_positions(processBuffer)
    /\ sectorIndex' = reset_positions(sectorIndex)
    /\ pc' = "ready"
    /\ UNCHANGED <<image, startSector, useBest, passes, inputBuffer,
                   outputBuffer, usedOptimizations, resultedOptimizations, negotiated,
                   encodeStatus, decodeStatus, lutVars, msfVars, hdrVars, secVars, callVars, drvVars, eccVars>>

DecodeStream ==
    /\ pc = "ready"
    /\ \E r \in {decode_stream(processBuffer, outputBuffer, sectorIndex, Len(image),
                              startSector, resultedOptimizations)} :
          /\ processBuffer' = r.input
          /\ outputBuffer' = r.output
          /\ sectorIndex' = r.sectorsIndex
          /\ decodeStatus' = r.status
    /\ pc' = "decoded"
    /\ UNCHANGED <<image, startSector, useBest, passes, inputBuffer,
                   usedOptimizations, resultedOptimizations, negotiated,
                   encodeStatus, lutVars, msfVars, hdrVars, secVars, callVars, drvVars, eccVars>>

---------------------------------------------------------------------------
(* One call of encode_stream or decode_stream on a caller's buffers.  The *)
(* buffers, their sizes and both of their cursors are public, so a call   *)
(* can come with any size and with the cursors anywhere.                  *)

MaxCallSectors == 2

CallPool ==
    {d \in SectorPool : d.kind \in {"cdda_gap", "mode1", "xa_gap"} /\ d.msf_ok /\ d.flags_eq}
CallImages == UNION {[1..n -> CallPool] : n \in 1..MaxCallSectors}
CallOptions == {0, 255}

\* the bytes that follow a char buffer in memory: zeros, or other data
Heaps == {{}, {<<0, 2352, Data(99)>>}}

\* a data_buffer<char> of size bytes with its cursor at cursor and its
\* saved start position at start, holding bytes from the cursor on (cut at
\* the end of the buffer), and followed in memory by the bytes after
Placed(shape, bytes, after) ==
    LET room == IF shape.size > shape.cursor THEN shape.size - shape.cursor ELSE 0
    IN [size |-> shape.size,
        current_position |-> shape.cursor,
        start_position |-> shape.start,
        mem |-> Shift(Region(bytes, 0, room), shape.cursor) \cup Shift(after, shape.size)]

\* a data_buffer<sector_type> with both cursors at cursor, holding types
\* from the cursor on, and followed in memory by the bytes after
IndexPlaced(shape, types, after) ==
    [buffer |-> [k \in 1..shape.size |->
                    IF k > shape.cursor /\ k - shape.cursor <= Len(types)
                    THEN types[k - shape.cursor] ELSE ST_UNKNOWN],
     current_position |-> shape.cursor,
     start_position |-> shape.cursor,
     after |-> after]

\* sizes and cursors of a buffer meant for need bytes: exact, one byte
\* short, exact behind a cursor, too short behind a cursor, too long, and
\* exact behind a cursor that was moved by hand, the saved start position
\* staying at 0
Shapes(need) ==
    {sh \in {[size |-> need, cursor |-> 0, start |-> 0],
             [size |-> need - 1, cursor |-> 0, start |-> 0],
             [size |-> need + 2352, cursor |-> 2352, start |-> 2352],
             [size |-> need, cursor |-> 2352, start |-> 2352],
             [size |-> need + 7, cursor |-> 0, start |-> 0],
             [size |-> need + 2352, cursor |-> 2352, start |-> 0]} : sh.size >= 0}
TooLong(need) == [size |-> need + 7, cursor |-> 0, start |-> 0]

\* sizes and cursors of an index meant for n sectors
IndexShapes(n) ==
    {[size |-> n, cursor |-> 0], [size |-> n + 1, cursor |-> 1],
     [size |-> n, cursor |-> 1], [size |-> 0, cursor |-> 0]}

\* the bytes that follow an index vector in memory: zeros, or other data
IndexHeaps == {Repeat(MaxCallSectors, ST_UNKNOWN), Repeat(MaxCallSectors, ST_MODE1)}
\* the ones tried behind an index of the shape x: both when fewer than n
\* entries lie between its cursor and its end
IndexAfter(x, n) ==
    IF x.size # 0 /\ x.cursor + n > x.size THEN IndexHeaps
    ELSE {Repeat(MaxCallSectors, ST_UNKNOWN)}
IndexCases(n) ==
    UNION {{[shape |-> x, after |-> a] : a \in IndexAfter(x, n)} : x \in IndexShapes(n)}

EncodeArgs(img, opt) ==
    {[op |-> "encode",
      input |-> Placed(i, ImageBytes(img, 1, 150), h),
      output |-> Placed(o, {}, {}),
      sectorsIndex |-> IndexPlaced(x, <<>>, Repeat(MaxCallSectors, ST_UNKNOWN)),
      inputSectorsNumber |-> Len(img),
      startSectorNumber |-> 150,
      options |-> opt,
      useTheBestOptimizations |-> TRUE] :
        i \in Shapes(2352 * Len(img)), h \in Heaps,
        o \in Shapes(2352 * Len(img)) \ {TooLong(2352 * Len(img))},
        x \in IndexShapes(Len(img))}

\* the sectors of img encoded under opt into a buffer with room to spare
Encoded(img, opt) ==
    encode_stream(CharBuffer(2352 * Len(img), ImageBytes(img, 1, 150)),
                  CharBuffer(2 * 2352 * Len(img), {}),
                  Buffer([k \in 1..Len(img) |-> ST_UNKNOWN]),
                  Len(img), 150, opt, FALSE)

DecodeArgs(img, opt) ==
    LET e == Encoded(img, opt)
        types == e.sectorsIndex.buffer
        payload == Region(e.output.mem, 0, e.output.current_position)
        need == CalculatedSize(Buffer(types), Len(img), opt)
    IN {[op |-> "decode",
         input |-> Placed(i, payload, {}),
         output |-> Placed(o, {}, {}),
         sectorsIndex |-> IndexPlaced(x.shape, types, x.after),
         inputSectorsNumber |-> Len(img),
         startSectorNumber |-> 150,
         options |-> opt,
         useTheBestOptimizations |-> FALSE] :
            i \in Shapes(need),
            o \in Shapes(2352 * Len(img)) \ {TooLong(2352 * Len(img))},
            x \in IndexCases(Len(img))}

NoReturn == [status |-> STATUS_OK]

CallInit ==
    /\ call_pc = "start"
    /\ call_args \in UNION {EncodeArgs(img, opt) \cup DecodeArgs(img, opt) :
                                img \in CallImages, opt \in CallOptions}
    /\ call_ret = NoReturn

\* encode_stream passes its own checks and then reads sectors that lie
\* beyond the end of the input vector
EncodeReadsPastEnd(a) ==
    /\ a.input.size >= a.inputSectorsNumber * 2352
    /\ IndexAvailable(a.sectorsIndex) >= a.inputSectorsNumber
    /\ a.input.current_position + a.inputSectorsNumber * 2352 > a.input.size

\* decode_stream passes its own checks and then writes sectors beyond the
\* end of the output vector
DecodeWritesPastEnd(a) ==
    /\ Len(a.sectorsIndex.buffer) # 0
    /\ a.inputSectorsNumber * 2352 <= a.output.size
    /\ CalculatedSize(a.sectorsIndex, a.inputSectorsNumber, a.options)
            <= get_available_items(a.input)
    /\ a.output.current_position + a.inputSectorsNumber * 2352 > a.output.size

\* decode_stream passes the checks it makes ahead of its first read of the
\* index and then reads entries beyond the end of the index vector
DecodeReadsIndexPastEnd(a) ==
    /\ Len(a.sectorsIndex.buffer) # 0
    /\ a.inputSectorsNumber * 2352 <= a.output.size
    /\ a.sectorsIndex.current_position + a.inputSectorsNumber > Len(a.sectorsIndex.buffer)

\* an access beyond a vector either goes through, on whatever bytes lie
\* there, or ends the process
CallEncode ==
    /\ call_pc = "start"
    /\ call_args.op = "encode"
    /\ \E r \in {encode_stream(call_args.input, call_args.output, call_args.sectorsIndex,
                              call_args.inputSectorsNumber, call_args.startSectorNumber,
                              call_args.options, call_args.useTheBestOptimizations)} :
       \E crashed \in (IF EncodeReadsPastEnd(call_args) THEN BOOLEAN ELSE {FALSE}) :
          /\ call_pc' = IF crashed THEN "crashed" ELSE "returned"
          /\ call_ret' = IF crashed THEN NoReturn ELSE r
    /\ UNCHANGED <<call_args, lutVars, msfVars, hdrVars, secVars, strVars, drvVars, eccVars>>

CallDecode ==
    /\ call_pc = "start"
    /\ call_args.op = "decode"
    /\ \E r \in {decode_stream(call_args.input, call_args.output, call_args.sectorsIndex,
                              call_args.inputSectorsNumber, call_args.startSectorNumber,
                              call_args.options)} :
       \E crashed \in (IF DecodeWritesPastEnd(call_args) \/ DecodeReadsIndexPastEnd(call_args)
                       THEN BOOLEAN ELSE {FALSE}) :
          /\ call_pc' = IF crashed THEN "crashed" ELSE "returned"
          /\ call_ret' = IF crashed THEN NoReturn ELSE r
    /\ UNCHANGED <<call_args, lutVars, msfVars, hdrVars, secVars, strVars, drvVars, eccVars>>

---------------------------------------------------------------------------
(* The command line, main() of encode_decode.cpp: two passes of          *)
(* encode_stream over chunks of BUFFERSECTORS sectors, or one pass of    *)
(* decode_stream over the chunks of a container                         *)

\* sectors per chunk (100 in the program)
BUFFERSECTORS == 2
BUFFERSIZE == 2352 * BUFFERSECTORS
\* the most index entries a container may announce (400000 in the program)
EntriesLimit == 3
\* sectors of the images encoded
MaxDrvSectors == 3

OPTIMIZATIONS ==
    OO_REMOVE_SYNC + OO_REMOVE_MSF + OO_REMOVE_MODE + OO_REMOVE_BLANKS
        + OO_REMOVE_REDUNDANT_FLAG + OO_REMOVE_ECC + OO_REMOVE_EDC + OO_REMOVE_GAP

\* the number of the first sector of an image
CDROM_IMAGE_START_SECTOR == 150

\* ecm_file_configuration, as constructed
NoConfig == [optimizations |-> 0, index_pack_mode |-> 0, index_entries |-> 0, sectors |-> 0]
\* the output file before anything is written to it
NoFile == [magic |-> FALSE, config |-> NoConfig, packed |-> <<>>, data |-> {}, length |-> 0]

\* the packed index of the container format: one record of a type and a
\* w-byte count per run of equal types
RECURSIVE RunLength(_)
RunLength(types) ==
    IF Len(types) <= 1 THEN Len(types)
    ELSE IF types[2] # types[1] THEN 1
    ELSE 1 + RunLength(Tail(types))

RECURSIVE PackRuns(_, _)
PackRuns(types, w) ==
    IF types = <<>> THEN <<>>
    ELSE LET n == RunLength(types)
         IN <<types[1]>> \o CountBytes(n, w) \o PackRuns(SubSeq(types, n + 1, Len(types)), w)

\* the files given to the program.  An image to encode is its sectors and
\* extra bytes after the last whole sector.  A container to decode is the
\* sectors it was made from, its configuration, whether it starts with
\* "ECM2" 0x01, and extra payload bytes (missing ones when negative).
DrvEncodePool ==
    {d \in SectorPool :
        \/ d.kind \in {"cdda_gap", "mode1"} /\ d.msf_ok /\ d.flags_eq
        \/ d.kind = "mode1" /\ ~d.msf_ok
        \/ d.kind = "xa1" /\ d.msf_ok /\ ~d.flags_eq}
DrvDecodePool == {d \in SectorPool : d.kind \in {"mode1", "xa_gap"} /\ d.msf_ok /\ d.flags_eq}

\* the packed index and the payload of the container made from an encoding e
ContainerPacked(e, w) == PackRuns(e.sectorsIndex.buffer, w)
ContainerPayload(e, extra) ==
    [mem |-> Region(e.output.mem, 0, e.output.current_position + extra),
     length |-> e.output.current_position + extra]

NoPayload == [mem |-> {}, length |-> 0]

EncodeFiles ==
    {[decode |-> FALSE, sectors |-> img, extra |-> x, magic |-> TRUE, config |-> NoConfig,
      packed |-> <<>>, payload |-> NoPayload] :
        img \in UNION {[1..n -> DrvEncodePool] : n \in 1..MaxDrvSectors}, x \in {0, 7}}

Containers(img, opt) ==
    UNION {{[decode |-> TRUE, sectors |-> img, extra |-> x, magic |-> m,
             config |-> [optimizations |-> opt, index_pack_mode |-> 1,
                         index_entries |-> Len(ContainerPacked(e, 1)) \div 2,
                         sectors |-> n],
             packed |-> ContainerPacked(e, 1), payload |-> ContainerPayload(e, x)] :
                x \in {x \in {0 - 1, 0, 7} : e.output.current_position + x >= 0},
                m \in BOOLEAN, n \in {Len(img), Len(img) + 1}} :
           e \in {Encoded(img, opt)}}

DecodeFiles ==
    UNION {Containers(img, opt) :
            img \in UNION {[1..n -> DrvDecodePool] : n \in 1..(EntriesLimit + 1)},
            opt \in CallOptions}

\* the bytes of the input file and their number
ImageFile(f) ==
    [mem |-> ImageBytes(f.sectors, 1, CDROM_IMAGE_START_SECTOR),
     length |-> 2352 * Len(f.sectors) + f.extra]

\* "sectors_to_read": a whole chunk, or the sectors left
SectorsToRead(total, i) == IF BUFFERSECTORS < total - i THEN BUFFERSECTORS ELSE total - i

\* input_file.read(buffer.data(), count) with the file at pos: the bytes the
\* file still holds are copied, the rest of the vector is left as it was
FileRead(buf, file, pos, count) ==
    LET left == IF file.length > pos THEN file.length - pos ELSE 0
        got == IF count < left THEN count ELSE left
    IN [buf EXCEPT !.mem = Store(@, 0, got, Region(file.mem, pos, got))]

\* output_file.write(buffer.data(), count)
FileWrite(file, buf, count) ==
    [file EXCEPT !.data = Store(@, file.length, count, Region(buf.mem, 0, count)),
                 !.length = @ + count]

\* the sum of get_encoded_sector_size over entries lo+1 .. lo+n of the
\* unpacked index
RECURSIVE DataToRead(_, _, _, _)
DataToRead(types, lo, n, options) ==
    IF n = 0 THEN 0
    ELSE DataToRead(types, lo, n - 1, options)
            + get_encoded_sector_size(types[lo + n], options)

\* "for (j = 1; j <= 3; j++)": the counter width with the shortest packed
\* index, the first of them when several tie
RECURSIVE BestPack(_, _, _, _)
BestPack(index, j, last_size, best_pack_size) ==
    IF j > 3 THEN best_pack_size
    ELSE LET size == Len(pack_header(index, j))
         IN IF last_size = 0 \/ size < last_size
            THEN BestPack(index, j + 1, size, j)
            ELSE BestPack(index, j + 1, last_size, best_pack_size)

\* the sector number given to encode_stream in the analysis pass
AnalysisSector(i) == CDROM_IMAGE_START_SECTOR + i
\* the emission pass giving every chunk the number of the first sector
EmissionSector_NoOffset(i) == 150
\* the sector number given to encode_stream in the emission pass
EmissionSector(i) == 150 + i

DrvInit ==
    /\ drv_pc = "start"
    /\ drv_file \in EncodeFiles \cup DecodeFiles
    /\ drv_i = 0
    /\ drv_input = CharBuffer(0, {})
    /\ drv_output = CharBuffer(0, {})
    /\ drv_index = Buffer(<<>>)
    /\ drv_config = NoConfig
    /\ drv_written = NoFile
    /\ drv_log = <<>>
    /\ drv_code = 0
    /\ drv_removed = FALSE

\* main() up to its loops: the checks on the input file, and for a
\* container its header and its index
Refused == [pc |-> "exit", code |-> 1, config |-> NoConfig, index |-> Buffer(<<>>),
            written |-> NoFile]

OpenEncode(f) ==
    IF ImageFile(f).length % 2352 # 0 THEN Refused
    ELSE [pc |-> "analysis", code |-> 0,
          config |-> [NoConfig EXCEPT !.optimizations = OPTIMIZATIONS],
          index |-> Buffer([k \in 1..(ImageFile(f).length \div 2352) |-> ST_UNKNOWN]),
          written |-> [NoFile EXCEPT !.magic = TRUE]]

OpenDecode(f) ==
    IF ~f.magic THEN Refused
    ELSE IF f.config.index_entries > EntriesLimit THEN Refused
    ELSE LET index_packed == SubSeq(f.packed, 1,
                                    (f.config.index_pack_mode + 1) * f.config.index_entries)
             unpacked_header == unpack_header(index_packed, f.config.index_pack_mode)
         IN IF Len(unpacked_header.buffer) # f.config.sectors THEN Refused
            ELSE [pc |-> "decoding", code |-> 0, config |-> f.config,
                  index |-> unpacked_header, written |-> NoFile]

DrvOpen ==
    /\ drv_pc = "start"
    /\ \E o \in {IF drv_file.decode THEN OpenDecode(drv_file) ELSE OpenEncode(drv_file)} :
          /\ drv_pc' = o.pc
          /\ drv_code' = o.code
          /\ drv_config' = o.config
          /\ drv_index' = o.index
          /\ drv_written' = o.written
    /\ drv_input' = CharBuffer(BUFFERSIZE, {})
    /\ drv_output' = CharBuffer(BUFFERSIZE, {})
    /\ UNCHANGED <<drv_file, drv_i, drv_log, drv_removed,
                   lutVars, msfVars, hdrVars, secVars, strVars, callVars, eccVars>>

\* one chunk of the analysis pass
DrvAnalyse ==
    /\ drv_pc = "analysis"
    /\ drv_i < Len(drv_index.buffer)
    /\ \E sectors_to_read \in {SectorsToRead(Len(drv_index.buffer), drv_i)} :
       \E file \in {ImageFile(drv_file)} :
       \E input \in {FileRead(reset_positions(drv_input), file, drv_i * 2352,
                              sectors_to_read * 2352)} :
       \E r \in {encode_stream(input, reset_positions(drv_output), drv_index,
                               sectors_to_read, AnalysisSector(drv_i),
                               drv_config.optimizations, TRUE)} :
            /\ drv_input' = r.input
            /\ drv_output' = r.output
            /\ drv_index' = r.sectorsIndex
            /\ drv_config' = [drv_config EXCEPT !.optimizations = r.options]
            /\ drv_log' = Append(drv_log, [pass |-> "analysis", flags |-> r.options,
                                           status |-> r.status, short |-> FALSE,
                                           first |-> drv_i, sectors |-> sectors_to_read,
                                           cursor |-> drv_index.current_position,
                                           number |-> AnalysisSector(drv_i)])
    /\ drv_i' = drv_i + BUFFERSECTORS
    /\ UNCHANGED <<drv_pc, drv_file, drv_written, drv_code, drv_removed,
                   lutVars, msfVars, hdrVars, secVars, strVars, callVars, eccVars>>

\* between the passes: the index is rewound and packed, the configuration
\* and the packed index are written, and the input file is rewound
DrvWriteHeader ==
    /\ drv_pc = "analysis"
    /\ drv_i >= Len(drv_index.buffer)
    /\ \E index \in {reset_positions(drv_index)} :
       \E best_pack_size \in {BestPack(index, 1, 0, 0)} :
       \E packed_index \in {pack_header(index, best_pack_size)} :
       \E output_config \in {[drv_config EXCEPT
                                !.index_entries = Len(packed_index) \div (best_pack_size + 1),
                                !.index_pack_mode = best_pack_size,
                                !.sectors = Len(drv_index.buffer)]} :
          /\ drv_index' = index
          /\ drv_config' = output_config
          /\ drv_written' = [drv_written EXCEPT !.config = output_config,
                                                !.packed = packed_index]
    /\ drv_i' = 0
    /\ drv_pc' = "emission"
    /\ UNCHANGED <<drv_file, drv_input, drv_output, drv_log, drv_code, drv_removed,
                   lutVars, msfVars, hdrVars, secVars, strVars, callVars, eccVars>>

\* one chunk of the emission pass
DrvEmit ==
    /\ drv_pc = "emission"
    /\ drv_i < Len(drv_index.buffer)
    /\ \E sectors_to_read \in {SectorsToRead(Len(drv_index.buffer), drv_i)} :
       \E file \in {ImageFile(drv_file)} :
       \E input \in {FileRead(reset_positions(drv_input), file, drv_i * 2352,
                              sectors_to_read * 2352)} :
       \E r \in {encode_stream(input, reset_positions(drv_output), drv_index,
                               sectors_to_read, EmissionSector(drv_i),
                               drv_config.optimizations, TRUE)} :
            /\ drv_input' = r.input
            /\ drv_output' = r.output
            /\ drv_index' = r.sectorsIndex
            /\ drv_config' = [drv_config EXCEPT !.optimizations = r.options]
            /\ drv_written' = FileWrite(drv_written, r.output, r.output.current_position)
            /\ drv_log' = Append(drv_log, [pass |-> "emission", flags |-> r.options,
                                           status |-> r.status, short |-> FALSE,
                                           first |-> drv_i, sectors |-> sectors_to_read,
                                           cursor |-> drv_index.current_position,
                                           number |-> EmissionSector(drv_i)])
    /\ drv_i' = drv_i + BUFFERSECTORS
    /\ UNCHANGED <<drv_pc, drv_file, drv_code, drv_removed,
                   lutVars, msfVars, hdrVars, secVars, strVars, callVars, eccVars>>

\* one chunk of the decode loop.  A read of more bytes than the vector
\* holds writes beyond it: the run goes on, or the process ends there
DrvDecode ==
    /\ drv_pc = "decoding"
    /\ drv_i < Len(drv_index.buffer)
    /\ \E sectors_to_read \in {SectorsToRead(Len(drv_index.buffer), drv_i)} :
       \E options \in {drv_config.optimizations} :
       \E position \in {DataToRead(drv_index.buffer, 0, drv_i, options)} :
       \E data_to_read \in {DataToRead(drv_index.buffer, drv_i, sectors_to_read, options)} :
       \E payload \in {drv_file.payload} :
       \E input \in {FileRead(reset_positions(drv_input), payload, position, data_to_read)} :
       \E r \in {decode_stream(input, reset_positions(drv_output), drv_index,
                               sectors_to_read, 150 + drv_i, options)} :
       \E crashed \in (IF data_to_read > BUFFERSIZE /\ payload.length - position > BUFFERSIZE
                        THEN BOOLEAN ELSE {FALSE}) :
            /\ drv_pc' = IF crashed THEN "crashed" ELSE drv_pc
            /\ drv_input' = r.input
            /\ drv_output' = IF crashed THEN drv_output ELSE r.output
            /\ drv_index' = IF crashed THEN drv_index ELSE r.sectorsIndex
            /\ drv_written' = IF crashed THEN drv_written
                              ELSE FileWrite(drv_written, r.output, r.output.current_position)
            /\ drv_log' = IF crashed THEN drv_log
                          ELSE Append(drv_log,
                                      [pass |-> "decoding", flags |-> options,
                                       status |-> r.status,
                                       short |-> position + data_to_read > payload.length,
                                       first |-> drv_i, sectors |-> sectors_to_read,
                                       cursor |-> drv_index.current_position,
                                       number |-> 150 + drv_i])
    /\ drv_i' = drv_i + BUFFERSECTORS
    /\ UNCHANGED <<drv_file, drv_config, drv_code, drv_removed,
                   lutVars, msfVars, hdrVars, secVars, strVars, callVars, eccVars>>

\* the "exit:" label: the files are closed, and the output file is removed
\* when return_code is not 0
DrvExit ==
    /\ \/ drv_pc = "exit"
       \/ drv_pc \in {"emission", "decoding"} /\ drv_i >= Len(drv_index.buffer)
    /\ drv_removed' = (drv_code # 0)
    /\ drv_pc' = "done"
    /\ UNCHANGED <<drv_file, drv_i, drv_input, drv_output, drv_index, drv_config,
                   drv_written, drv_log, drv_code,
                   lutVars, msfVars, hdrVars, secVars, strVars, callVars, eccVars>>

---------------------------------------------------------------------------
(* ECC on real bytes: ecc_checkpq, ecc_write_pq and the two sector level   *)
(* functions.  A sector is seen from its byte 0x10 on: the 2060 bytes the  *)
(* P pass covers with the 4 address bytes, then the 172 P and the 104 Q    *)
(* parity bytes, as the sequence mem (byte k of the C array is mem[k+1]).  *)

\* majorCount, minorCount, majorMult and minorInc of the two passes
PassP == [majorCount |-> 86, minorCount |-> 24, majorMult |-> 2, minorInc |-> 86]
PassQ == [majorCount |-> 52, minorCount |-> 43, majorMult |-> 86, minorInc |-> 88]
\* "ecc" of the P pass is data + 0x80C and that of the Q pass is 0xAC further
EccOffsetP == 86 * 24 - 4
EccOffsetQ == EccOffsetP + 2 * 86
EccSectorSize == EccOffsetQ + 2 * 52

\* "temp": the byte at index of the address followed by the data
EccTemp(address, mem, index) ==
    IF index < 4 THEN address[index + 1] ELSE mem[index - 4 + 1]

\* the inner loop from iteration minor on: <<ecc_a, ecc_b>> at its end
RECURSIVE EccMinor(_, _, _, _, _, _, _)
EccMinor(address, mem, g, index, minor, ecc_a, ecc_b) ==
    IF minor >= g.minorCount THEN <<ecc_a, ecc_b>>
    ELSE LET temp == EccTemp(address, mem, index)
             size == g.majorCount * g.minorCount
             next == IF index + g.minorInc >= size THEN index + g.minorInc - size
                     ELSE index + g.minorInc
         IN EccMinor(address, mem, g, next, minor + 1,
                     ecc_f_lut[Xor(ecc_a, temp)], Xor(ecc_b, temp))

\* the two parity bytes of one major: <<ecc_a, ecc_a ^ ecc_b>>
EccPair(address, mem, g, major) ==
    LET ab == EccMinor(address, mem, g, (major \div 2) * g.majorMult + (major % 2), 0, 0, 0)
        ecc_a == ecc_b_lut[Xor(ecc_f_lut[ab[1]], ab[2])]
    IN <<ecc_a, Xor(ecc_a, ab[2])>>

\* ecc_checkpq comparing only the first parity byte of each major
ecc_checkpq_FirstOnly(address, mem, g, ecc) ==
    \A major \in 0..(g.majorCount - 1) :
        mem[ecc + major + 1] = EccPair(address, mem, g, major)[1]

\* processor::ecc_checkpq; ecc is the offset of the parity bytes in mem.
\* The loop returns false at the first major whose two bytes differ from
\* the stored ones, and true after the last.
ecc_checkpq(address, mem, g, ecc) ==
    \A major \in 0..(g.majorCount - 1) :
        LET pair == EccPair(address, mem, g, major)
        IN /\ mem[ecc + major + 1] = pair[1]
           /\ mem[ecc + major + g.majorCount + 1] = pair[2]

\* processor::ecc_write_pq: mem with the parity bytes stored.  The bytes
\* a major reads lie below ecc and the ones it stores at or above it, so
\* every major reads mem as it was at the call.
ecc_write_pq(address, mem, g, ecc) ==
    LET pairs == [major \in 0..(g.majorCount - 1) |-> EccPair(address, mem, g, major)]
    IN [k \in 1..Len(mem) |->
            IF k - 1 >= ecc /\ k - 1 < ecc + g.majorCount THEN pairs[k - 1 - ecc][1]
            ELSE IF k - 1 >= ecc + g.majorCount /\ k - 1 < ecc + 2 * g.majorCount
                 THEN pairs[k - 1 - ecc - g.majorCount][2]
            ELSE mem[k]]

\* processor::ecc_check_sector(address, data, data + 0x80C)
EccCheckSector(address, mem) ==
    ecc_checkpq(address, mem, PassP, EccOffsetP)
        /\ ecc_checkpq(address, mem, PassQ, EccOffsetQ)

\* processor::ecc_write_sector(address, data, data + 0x80C)
EccWriteSector(address, mem) ==
    ecc_write_pq(address, ecc_write_pq(address, mem, PassP, EccOffsetP),
                 PassQ, EccOffsetQ)

\* the sectors tried: three addresses, and data that is all zero, a ramp,
\* all 0xFF, or zero but for its first or its last byte; the parity bytes
\* start as zeros
EccAddresses == {<<0, 0, 0, 0>>, <<0, 2, 0, 1>>, <<18, 52, 86, 2>>}
EccData ==
    {[k \in 1..EccOffsetP |-> 0], [k \in 1..EccOffsetP |-> k % 256],
     [k \in 1..EccOffsetP |-> 255],
     [k \in 1..EccOffsetP |-> IF k = 1 THEN 1 ELSE 0],
     [k \in 1..EccOffsetP |-> IF k = EccOffsetP THEN 128 ELSE 0]}
\* the bytes a stored sector may differ in from the one that was written:
\* the first data byte, and the first and the last byte of each parity
EccDamage == {1, EccOffsetP + 1, EccOffsetQ, EccOffsetQ + 1, EccSectorSize}

EccInit ==
    /\ ecc_pc = "start"
    /\ ecc_address \in EccAddresses
    /\ ecc_sector \in {[k \in 1..EccSectorSize |-> IF k <= EccOffsetP THEN d[k] ELSE 0] :
                            d \in EccData}
    /\ ecc_regenerated = <<>>
    /\ ecc_ok = FALSE

\* the parity of the sector is written, as the decoder does
EccWrite ==
    /\ ecc_pc = "start"
    /\ ecc_sector' = EccWriteSector(ecc_address, ecc_sector)
    /\ ecc_pc' = "written"
    /\ UNCHANGED <<ecc_address, ecc_regenerated, ecc_ok,
                   lutVars, msfVars, hdrVars, secVars, strVars, callVars, drvVars>>

\* the sector is stored, as it is or with one byte changed
EccStore ==
    /\ ecc_pc = "written"
    /\ \/ UNCHANGED ecc_sector
       \/ \E k \in EccDamage : ecc_sector' = [ecc_sector EXCEPT ![k] = (@ + 1) % 256]
    /\ ecc_pc' = "stored"
    /\ UNCHANGED <<ecc_address, ecc_regenerated, ecc_ok,
                   lutVars, msfVars, hdrVars, secVars, strVars, callVars, drvVars>>

\* the sector is verified as detect does, and its parity is generated
\* again as the decoder would
EccCheck ==
    /\ ecc_pc \in {"start", "stored"}
    /\ ecc_ok' = EccCheckSector(ecc_address, ecc_sector)
    /\ ecc_regenerated' = EccWriteSector(ecc_address, ecc_sector)
    /\ ecc_pc' = "checked"
    /\ UNCHANGED <<ecc_address, ecc_sector,
                   lutVars, msfVars, hdrVars, secVars, strVars, callVars, drvVars>>

---------------------------------------------------------------------------
(* Idle values of the parts a specification does not exercise *)

\* the tables as the constructor's loop leaves them
LutIdle ==
    /\ lut_i = LutSize
    /\ ecc_f_lut = [i \in 0..(LutSize - 1) |-> EccFEntry(i) % 256]
    /\ ecc_b_lut = [k \in 0..(LutSize - 1) |->
                        LET writers == {i \in 0..(LutSize - 1) : Xor(i, EccFEntry(i)) = k}
                        IN IF writers = {} THEN Uninit
                           ELSE CHOOSE i \in writers : \A other \in writers : other <= i]
    /\ edc_lut = [i \in 0..(LutSize - 1) |-> EdcEntry(<<0, i>>, 0)]

MsfIdle ==
    /\ char_signed = TRUE
    /\ msf_pc = "idle"
    /\ msf_sector = 0
    /\ msf_time = <<0, 0, 0>>
    /\ msf_result = 0

HdrIdle ==
    /\ hdr_pc = "idle"
    /\ hdr_index = Buffer(<<>>)
    /\ hdr_w = 1
    /\ hdr_packed = <<>>
    /\ hdr_unpacked = Buffer(<<>>)
    /\ hdr_raw = NoRead

SecIdle ==
    /\ sec_pc = "idle"
    /\ sec_image = [kind |-> "cdda_gap", msf_ok |-> TRUE, flags_eq |-> TRUE]
    /\ sec_number = 150
    /\ sec_options = 0
    /\ sec_type = ST_UNKNOWN
    /\ sec_input = CharBuffer(0, {})
    /\ sec_process = CharBuffer(0, {})
    /\ sec_output = CharBuffer(0, {})

StrIdle ==
    /\ pc = "idle"
    /\ image = <<>>
    /\ startSector = 150
    /\ useBest = TRUE
    /\ passes = 0
    /\ inputBuffer = CharBuffer(0, {})
    /\ processBuffer = CharBuffer(0, {})
    /\ outputBuffer = CharBuffer(0, {})
    /\ sectorIndex = Buffer(<<>>)
    /\ usedOptimizations = 0
    /\ resultedOptimizations = 0
    /\ negotiated = 0
    /\ encodeStatus = STATUS_OK
    /\ decodeStatus = STATUS_OK

CallIdle ==
    /\ call_pc = "idle"
    /\ call_args = [op |-> "none"]
    /\ call_ret = [status |-> STATUS_OK]

DrvIdle ==
    /\ drv_pc = "idle"
    /\ drv_file = [decode |-> FALSE, sectors |-> <<>>, extra |-> 0, magic |-> TRUE,
                   config |-> NoConfig]
    /\ drv_i = 0
    /\ drv_input = CharBuffer(0, {})
    /\ drv_output = CharBuffer(0, {})
    /\ drv_index = Buffer(<<>>)
    /\ drv_config = NoConfig
    /\ drv_written = NoFile
    /\ drv_log = <<>>
    /\ drv_code = 0
    /\ drv_removed = FALSE

EccIdle ==
    /\ ecc_pc = "idle"
    /\ ecc_address = <<0, 0, 0, 0>>
    /\ ecc_sector = <<>>
    /\ ecc_regenerated = <<>>
    /\ ecc_ok = FALSE

---------------------------------------------------------------------------
(* Specifications *)

\* the constructor's loop
InitLut == LutInit /\ MsfIdle /\ HdrIdle /\ SecIdle /\ StrIdle /\ CallIdle /\ DrvIdle /\ EccIdle
NextLut == CtorStep
SpecLut == InitLut /\ [][NextLut]_vars

\* sector number to MSF and back
InitMsf == LutIdle /\ MsfInit /\ HdrIdle /\ SecIdle /\ StrIdle /\ CallIdle /\ DrvIdle /\ EccIdle
NextMsf == SectorToTime \/ TimeToSector
SpecMsf == InitMsf /\ [][NextMsf]_vars

\* index packing and unpacking
InitHdr == LutIdle /\ MsfIdle /\ HdrInit /\ SecIdle /\ StrIdle /\ CallIdle /\ DrvIdle /\ EccIdle
NextHdr == PackHeader \/ UnpackHeader \/ UnpackWith
SpecHdr == InitHdr /\ [][NextHdr]_vars

\* one sector at a time
InitSec == LutIdle /\ MsfIdle /\ HdrIdle /\ SecInit /\ StrIdle /\ CallIdle /\ DrvIdle /\ EccIdle
NextSec == Detect \/ EncodeSector \/ ResetSector \/ DecodeSector
SpecSec == InitSec /\ [][NextSec]_vars

\* single calls on buffers of any shape
InitCall == LutIdle /\ MsfIdle /\ HdrIdle /\ SecIdle /\ StrIdle /\ CallInit /\ DrvIdle /\ EccIdle
NextCall == CallEncode \/ CallDecode
SpecCall == InitCall /\ [][NextCall]_vars

\* the command line
InitDrv == LutIdle /\ MsfIdle /\ HdrIdle /\ SecIdle /\ StrIdle /\ CallIdle /\ DrvInit /\ EccIdle
NextDrv == DrvOpen \/ DrvAnalyse \/ DrvWriteHeader \/ DrvEmit \/ DrvDecode \/ DrvExit
SpecDrv == InitDrv /\ [][NextDrv]_vars

\* the ECC of one sector
InitEcc == LutIdle /\ MsfIdle /\ HdrIdle /\ SecIdle /\ StrIdle /\ CallIdle /\ DrvIdle /\ EccInit
NextEcc == EccWrite \/ EccStore \/ EccCheck
SpecEcc == InitEcc /\ [][NextEcc]_vars

\* whole streams
Init == LutIdle /\ MsfIdle /\ HdrIdle /\ SecIdle /\ StrInit /\ CallIdle /\ DrvIdle /\ EccIdle
Next == EncodeStream \/ Rewind \/ ResetPositions \/ DecodeStream
Spec == Init /\ [][Next]_vars

---------------------------------------------------------------------------
(* Properties *)

\* C1: with negotiation enabled, encode_stream followed by decode_stream
\* (given the returned flags, the produced index and the same start
\* sector) returns OK twice and reproduces the input byte for byte, for
\* every mix of sectors and every requested flag set.
C1_StreamRoundTrip ==
    (pc = "decoded" /\ useBest) =>
        /\ encodeStatus = STATUS_OK
        /\ decodeStatus = STATUS_OK
        /\ outputBuffer.mem = inputBuffer.mem

\* C2: the number of bytes encode_sector writes for a sector of any
\* variant under any flag set is get_encoded_sector_size(variant, flags).
C2_SizeOracle ==
    sec_pc = "encoded" =>
        sec_process.current_position = get_encoded_sector_size(sec_type, sec_options)

\* C3: unpack_header(pack_header(I, w), w) is I, for every index of one
\* entry or more and every w in 1..3.
C3_PackRoundTrip ==
    hdr_pc = "unpacked" => hdr_unpacked.buffer = hdr_index.buffer

\* C4: the flag set encode_stream leaves in the caller's variable is a
\* subset of the requested one: negotiation never sets a bit.
C4_NegotiationSubset == SubsetOf(resultedOptimizations, usedOptimizations)

\* a negotiation that did clear a requested flag
C4_Witness == pc = "encoded" /\ useBest /\ resultedOptimizations # usedOptimizations

\* C5: negotiating a second time over the same sectors with the same
\* sector numbers, from the flag set the first negotiation returned,
\* returns that same flag set.
C5_NegotiationIdempotent == passes >= 2 => resultedOptimizations = negotiated

\* a second pass after a first one that cleared a requested flag
C5_Witness ==
    pc = "encoded" /\ passes = 2 /\ useBest /\ negotiated # usedOptimizations

\* the sector at the input cursor has SYNC, mode byte 2 and 2336 zero
\* bytes from 0x010
ZeroMode2Payload(input) ==
    /\ ValAt(input.mem, input.current_position, 12) = SyncPattern
    /\ ValAt(input.mem, input.current_position + 15, 1) = ByteVal(2)
    /\ is_gap(input.mem, input.current_position + 16, 2336)

C7_MsfRoundTrip == msf_pc = "done" => msf_result = msf_sector

\* C8: at every point of the constructor's loop the entries written so
\* far satisfy ecc_b_lut[i XOR ecc_f_lut[i]] = i (so no iteration
\* overwrites an earlier one and the finished tables satisfy it for all
\* of 0..255), and edc_lut[0] = 0.
C8_LutInverse ==
    /\ \A i \in 0..(lut_i - 1) : ecc_b_lut[Xor(i, ecc_f_lut[i])] = i
    /\ lut_i > 0 => edc_lut[0] = <<0, 0>>

\* the constructor has finished
C8_Witness == lut_i = LutSize /\ msf_pc = "idle" /\ ecc_f_lut[LutSize - 1] # Uninit

\* the bytes encode_sector_mode_1 writes ahead of the data
Mode1Head(options) == SizeHeader(options) + Kept(options, OO_REMOVE_MODE, 1)

\* C9: for a ST_MODE1_RAW sector under every flag set, the encoder emits
\* the 2048 data bytes, the 4 EDC bytes and the 276 ECC bytes verbatim,
\* the size function counts them, and the decoder copies them back (the
\* decoded EDC is the stored one, not the EDC of the decoded bytes).
C9_RawKeepsEdcEcc ==
    sec_type = ST_MODE1_RAW =>
        /\ sec_pc = "encoded" =>
            LET head == Mode1Head(sec_options)
                blanks == Kept(sec_options, OO_REMOVE_BLANKS, 8)
            IN /\ Region(sec_process.mem, head, 2048) = Region(sec_input.mem, 16, 2048)
               /\ Region(sec_process.mem, head + 2048, 4) = Region(sec_input.mem, 2064, 4)
               /\ Region(sec_process.mem, head + 2052 + blanks, 276)
                    = Region(sec_input.mem, 2076, 276)
               /\ get_encoded_sector_size(sec_type, sec_options) = head + 2328 + blanks
               /\ sec_process.current_position = head + 2328 + blanks
        /\ sec_pc = "decoded" =>
            /\ Region(sec_output.mem, 16, 2052) = Region(sec_input.mem, 16, 2052)
            /\ Region(sec_output.mem, 2076, 276) = Region(sec_input.mem, 2076, 276)
            /\ get32lsb(sec_output.mem, 2064) # edc_compute(sec_output.mem, 0, 2064)

\* a raw sector decoded under all eight flags
C9_Witness ==
    sec_pc = "decoded" /\ sec_type = ST_MODE1_RAW /\ sec_options = 255

\* C10 as stated: a ST_MODE1 sector (sector 150, non-zero payload,
\* correct EDC and ECC) encodes to 0 bytes under all eight flags.
C10_AllFlagsSizeZero ==
    (sec_pc = "encoded" /\ sec_type = ST_MODE1 /\ sec_number = 150
        /\ sec_image.msf_ok /\ sec_options = 255) =>
        /\ sec_process.current_position = 0
        /\ get_encoded_sector_size(sec_type, sec_options) = 0

\* C10 amended: that sector encodes to its 2048 data bytes under all
\* eight flags (2352 - 12 - 3 - 1 - 4 - 8 - 276 = 2048), and the size
\* function says so.
C10_AllFlagsSizeData ==
    (sec_pc = "encoded" /\ sec_type = ST_MODE1 /\ sec_number = 150
        /\ sec_image.msf_ok /\ sec_options = 255) =>
        /\ sec_process.current_position = 2048
        /\ get_encoded_sector_size(sec_type, sec_options) = 2048
        /\ Region(sec_process.mem, 0, 2048) = Region(sec_input.mem, 16, 2048)

C10_Witness ==
    /\ sec_pc = "encoded" /\ sec_type = ST_MODE1 /\ sec_number = 150
    /\ sec_image.msf_ok /\ sec_options = 255
    /\ sec_process.current_position = 2048

\* every entry of the index is the same variant
SingleRun(index) == \A k \in 1..Len(index.buffer) : index.buffer[k] = index.buffer[1]

\* the sum of the counts of the records of a packed index
RECURSIVE CountsSum(_, _)
CountsSum(packed, w) ==
    IF Len(packed) < w + 1 THEN 0
    ELSE BytesCount(SubSeq(packed, 2, w + 1))
            + CountsSum(SubSeq(packed, w + 2, Len(packed)), w)

\* C17: for an index that is one run of L identical variants, pack_header
\* with counter width w emits ceil(L / (256^w - 1)) records, and their
\* counts sum to L (L = 1000: four records for w = 1, one for w = 2).
C17_RunRecords ==
    (hdr_pc = "packed" /\ SingleRun(hdr_index)) =>
        LET L == Len(hdr_index.buffer)
            max_count == Pow(256, hdr_w) - 1
        IN /\ Len(hdr_packed) = (hdr_w + 1) * ((L + max_count - 1) \div max_count)
           /\ CountsSum(hdr_packed, hdr_w) = L

\* the variant detect gives sector k (from 1) of the stream's input
DetectAt(k) == detect([inputBuffer EXCEPT !.current_position = (k - 1) * 2352])

\* C19: after encode_stream returns OK for n sectors, the index holds one
\* entry per input sector, in input order, each the variant detect returns
\* for that sector, and none is ST_UNKNOWN.
C19_IndexPerSector ==
    (pc = "encoded" /\ encodeStatus = STATUS_OK) =>
        /\ Len(sectorIndex.buffer) = Len(image)
        /\ \A k \in 1..Len(image) :
              /\ sectorIndex.buffer[k] = DetectAt(k)
              /\ sectorIndex.buffer[k] # ST_UNKNOWN

\* a stream of two sectors of different variants, encoded
C19_Witness ==
    /\ pc = "encoded" /\ encodeStatus = STATUS_OK /\ Len(image) = 2
    /\ sectorIndex.buffer[1] # sectorIndex.buffer[2]
    /\ sectorIndex.current_position = 2

\* C20: when the flag set in effect after negotiation still holds
\* REMOVE_MSF, every sector whose MSF the encoder drops under it (every
\* variant from ST_MODE1 upward, gap variants included) stores the MSF of
\* its sector number at 0x00C..0x00E.
C20_MsfCanonical ==
    (pc = "encoded" /\ useBest /\ Has(resultedOptimizations, OO_REMOVE_MSF)) =>
        \A k \in 1..Len(image) :
            sectorIndex.buffer[k] >= ST_MODE1 =>
                ValAt(inputBuffer.mem, (k - 1) * 2352 + 12, 3)
                    = MsfVal(sector_to_time(startSector + k - 1))

\* the call has ended, by returning or otherwise
CallEnded == call_pc \in {"returned", "crashed"}
CallReturned(status) == call_pc = "returned" /\ call_ret.status = status

\* the checks decode_stream makes ahead of the one on its input pass
DecodeReachesInputCheck(a) ==
    /\ Len(a.sectorsIndex.buffer) # 0
    /\ a.inputSectorsNumber * 2352 <= a.output.size

\* the sum of the encoded sizes of the sectors a decode call asks for
DecodeNeeds(a) == CalculatedSize(a.sectorsIndex, a.inputSectorsNumber, a.options)

\* C11: encode_stream returns NO_ENOUGH_INPUT_DATA whenever the input left
\* from the input cursor is shorter than 2352 * sectors, wherever the cursor
\* stands; decode_stream returns it whenever the input left from the cursor
\* is shorter than the sum of the encoded sizes of the sectors.
C11_InputUnderflow ==
    CallEnded =>
        /\ (/\ call_args.op = "encode"
            /\ get_available_items(call_args.input) < 2352 * call_args.inputSectorsNumber)
                => CallReturned(STATUS_ERROR_NO_ENOUGH_INPUT_DATA)
        /\ (/\ call_args.op = "decode"
            /\ DecodeReachesInputCheck(call_args)
            /\ get_available_items(call_args.input) < DecodeNeeds(call_args))
                => CallReturned(STATUS_ERROR_NO_ENOUGH_INPUT_DATA)

\* the bytes the emission pass of an encode call writes when the output
\* has room for them
EmissionBytes(a) ==
    encode_stream(a.input, CharBuffer(2 * 2352 * a.inputSectorsNumber, {}), a.sectorsIndex,
                  a.inputSectorsNumber, a.startSectorNumber, a.options,
                  a.useTheBestOptimizations).output.current_position

\* C12: decode_stream returns NO_ENOUGH_OUTPUT_BUFFER_SPACE whenever the
\* output left from the output cursor is less than 2352 * sectors, and
\* encode_stream returns it whenever the output left is less than the
\* bytes the emission pass would write.
C12_OutputFull ==
    CallEnded =>
        /\ (/\ call_args.op = "decode"
            /\ Len(call_args.sectorsIndex.buffer) # 0
            /\ get_available_items(call_args.output) < 2352 * call_args.inputSectorsNumber)
                => CallReturned(STATUS_ERROR_NO_ENOUGH_OUTPUT_BUFFER_SPACE)
        /\ (/\ call_args.op = "encode"
            /\ call_args.input.size >= 2352 * call_args.inputSectorsNumber
            /\ IndexAvailable(call_args.sectorsIndex) >= call_args.inputSectorsNumber
            /\ get_available_items(call_args.output) < EmissionBytes(call_args))
                => CallReturned(STATUS_ERROR_NO_ENOUGH_OUTPUT_BUFFER_SPACE)

\* C13: when encode_stream or decode_stream returns a status that is not
\* STATUS_OK, the output buffer holds the bytes it held on entry and its
\* cursors are where they were.
C13_NoPartialWrite ==
    (call_pc = "returned" /\ call_ret.status # STATUS_OK) =>
        call_ret.output = call_args.output

\* an encode call refused for want of output room, on an output that
\* could have taken some of the sectors
C13_Witness ==
    /\ CallReturned(STATUS_ERROR_NO_ENOUGH_OUTPUT_BUFFER_SPACE)
    /\ call_args.op = "encode"
    /\ call_args.inputSectorsNumber = 2
    /\ get_available_items(call_args.output) >= 2352
    /\ call_ret.output = call_args.output

\* C14: on decode, an index that calls for more bytes than the payload
\* holds, and a payload that holds bytes beyond those the index accounts
\* for, both end in NO_ENOUGH_INPUT_DATA.
C14_StructuralMismatch ==
    (CallEnded /\ call_args.op = "decode" /\ DecodeReachesInputCheck(call_args)) =>
        /\ get_available_items(call_args.input) < DecodeNeeds(call_args)
                => CallReturned(STATUS_ERROR_NO_ENOUGH_INPUT_DATA)
        /\ get_available_items(call_args.input) > DecodeNeeds(call_args)
                => CallReturned(STATUS_ERROR_NO_ENOUGH_INPUT_DATA)

---------------------------------------------------------------------------
(* The command line *)

\* a chunk whose encode_stream or decode_stream call did not return
\* STATUS_OK, or whose payload read came up short
ChunkFailed(entry) == entry.status # STATUS_OK \/ entry.short

\* C15: a run in which encode_stream or decode_stream returned a non-OK
\* status for some chunk, or in which a payload read came up short, ends
\* with exit code 1 and its output file removed.
C15_FailureExits ==
    (drv_pc = "done" /\ \E k \in 1..Len(drv_log) : ChunkFailed(drv_log[k])) =>
        drv_code = 1 /\ drv_removed

\* C16: a container whose header field "sectors" is above the limit is
\* rejected with exit code 1 and nothing decoded, whatever its
\* index_entries.
C16_SectorsLimit ==
    (drv_file.decode /\ drv_file.config.sectors > EntriesLimit /\ drv_pc # "start") =>
        /\ drv_pc \in {"exit", "done"}
        /\ drv_code = 1
        /\ drv_log = <<>>
        /\ drv_written.length = 0

\* the chunks of the emission pass done so far
EmissionChunks == {k \in 1..Len(drv_log) : drv_log[k].pass = "emission"}

\* every chunk emitted so far was emitted under the flag set of the header
EmittedUnderHeaderFlags ==
    \A k \in EmissionChunks : drv_log[k].flags = drv_written.config.optimizations

\* in the two passes no step sets a flag that was clear
FlagsOnlyCleared ==
    drv_pc \in {"analysis", "emission"} =>
        SubsetOf(drv_config'.optimizations, drv_config.optimizations)

\* C18: in the two-pass encode every chunk is emitted under one flag set,
\* the one written in the container header, also when a flag was cleared
\* by a sector of a later chunk, and a cleared flag is never set again.
C18_GlobalNegotiation == [](EmittedUnderHeaderFlags) /\ [][FlagsOnlyCleared]_vars

\* an image of two chunks all emitted, in whose analysis the second chunk
\* cleared a flag the first chunk had left set
C18_Witness ==
    /\ drv_pc = "done"
    /\ ~drv_file.decode
    /\ Cardinality(EmissionChunks) = 2
    /\ drv_log[1].pass = "analysis" /\ drv_log[2].pass = "analysis"
    /\ drv_log[2].flags # drv_log[1].flags
    /\ drv_log[1].flags # drv_written.config.optimizations
    /\ EmittedUnderHeaderFlags

---------------------------------------------------------------------------
(* ECC *)

\* C27: ecc_check_sector accepts a sector exactly when its 276 parity
\* bytes are the ones ecc_write_sector generates from its address and its
\* data (the Q pass reading the P parity just written).
C27_CheckIffWritten ==
    ecc_pc = "checked" => (ecc_ok <=> ecc_regenerated = ecc_sector)

\* a sector written and stored unchanged is accepted, and one stored with
\* a changed parity byte is rejected
C27_Witness ==
    /\ ecc_pc = "checked"
    /\ ecc_ok
    /\ ecc_address = <<0, 2, 0, 1>>
    /\ \E k \in (EccOffsetP + 1)..EccSectorSize : ecc_sector[k] # 0

---------------------------------------------------------------------------
(* Negotiation of the two content dependent flags *)

XaVariants ==
    {ST_MODE2_XA_GAP, ST_MODE2_XA1, ST_MODE2_XA1_GAP, ST_MODE2_XA2, ST_MODE2_XA2_GAP}

\* sector k of the stream is an XA sector whose bytes 0x010..0x013 are not
\* its bytes 0x014..0x017
FlagsDiffer(k) ==
    /\ DetectAt(k) \in XaVariants
    /\ ValAt(inputBuffer.mem, (k - 1) * 2352 + 16, 4)
            # ValAt(inputBuffer.mem, (k - 1) * 2352 + 20, 4)

\* C21: when REMOVE_REDUNDANT_FLAG is requested and some XA sector of the
\* stream has two flag copies that differ, negotiation clears the flag for
\* the whole stream, and the decoded output holds the differing bytes of
\* that sector as the input had them.
C21_RedundantFlagNegotiated ==
    (/\ pc # "start" /\ useBest
     /\ Has(usedOptimizations, OO_REMOVE_REDUNDANT_FLAG)
     /\ \E k \in 1..Len(image) : FlagsDiffer(k)) =>
        /\ ~Has(resultedOptimizations, OO_REMOVE_REDUNDANT_FLAG)
        /\ (pc = "decoded" /\ encodeStatus = STATUS_OK /\ decodeStatus = STATUS_OK) =>
              \A k \in 1..Len(image) :
                  FlagsDiffer(k) =>
                      ValAt(outputBuffer.mem, (k - 1) * 2352 + 16, 8)
                          = ValAt(inputBuffer.mem, (k - 1) * 2352 + 16, 8)

\* a decoded stream of two sectors whose second one is an XA sector with
\* differing flag copies, all flags having been requested
C21_Witness ==
    /\ pc = "decoded" /\ useBest /\ usedOptimizations = 255
    /\ encodeStatus = STATUS_OK /\ decodeStatus = STATUS_OK
    /\ Len(image) = 2 /\ FlagsDiffer(2)
    /\ ~Has(resultedOptimizations, OO_REMOVE_REDUNDANT_FLAG)
    /\ ValAt(outputBuffer.mem, 2352 + 16, 4) # ValAt(outputBuffer.mem, 2352 + 20, 4)

\* the flags other than REMOVE_MSF and REMOVE_REDUNDANT_FLAG
OtherFlags(options) ==
    Without(Without(options, OO_REMOVE_MSF), OO_REMOVE_REDUNDANT_FLAG)

\* C22: check_optimizations changes no flag other than REMOVE_MSF and
\* REMOVE_REDUNDANT_FLAG, and for ST_CDDA, ST_CDDA_GAP and ST_UNKNOWN it
\* returns the flags it was given.
C22_OnlyTwoFlags ==
    /\ pc # "start" =>
          /\ OtherFlags(resultedOptimizations) = OtherFlags(usedOptimizations)
          /\ (\A k \in 1..Len(image) : DetectAt(k) \in {ST_CDDA, ST_CDDA_GAP, ST_UNKNOWN})
                => resultedOptimizations = usedOptimizations
    /\ pc = "start" =>
          \A k \in 1..Len(image) :
              \A t \in {ST_CDDA, ST_CDDA_GAP, ST_UNKNOWN} :
                  check_optimizations([inputBuffer EXCEPT !.current_position = (k - 1) * 2352],
                                      startSector + k - 1, usedOptimizations, t)
                      = usedOptimizations

\* an audio sector followed by a data sector whose MSF is not that of its
\* number: of all the flags requested, only REMOVE_MSF was cleared
C22_Witness ==
    /\ pc = "encoded" /\ useBest /\ usedOptimizations = 255
    /\ Len(image) = 2 /\ DetectAt(1) = ST_CDDA_GAP /\ DetectAt(2) = ST_MODE1
    /\ resultedOptimizations = 255 - OO_REMOVE_MSF

---------------------------------------------------------------------------
(* Records of the packed index *)

\* the count stored in record r (from 0) of a vector packed with w bytes
RecordCount(packed, w, r) ==
    BytesCount(SubSeq(packed, r * (w + 1) + 2, r * (w + 1) + 1 + w))

\* C24: every record pack_header emits holds a count c with
\* 1 <= c <= 256^w - 1, the number of entries of the index it stands for:
\* no record is empty, the last one included, and no count is cut to the w
\* bytes that hold it.
C24_RecordCounts ==
    hdr_pc \in {"packed", "unpacked"} =>
        /\ Len(hdr_packed) % (hdr_w + 1) = 0
        /\ \A r \in 0..(Len(hdr_packed) \div (hdr_w + 1) - 1) :
              /\ RecordCount(hdr_packed, hdr_w, r) >= 1
              /\ RecordCount(hdr_packed, hdr_w, r) <= Pow(256, hdr_w) - 1
        /\ hdr_pc = "unpacked" =>
              /\ Len(hdr_unpacked.buffer) <= Len(hdr_index.buffer)
              /\ hdr_unpacked.buffer
                    = SubSeq(hdr_index.buffer, 1, Len(hdr_unpacked.buffer))

\* a run of 256 entries packed with one count byte: a record of 255
\* entries and a record of 1
C24_Witness ==
    /\ hdr_pc = "unpacked" /\ hdr_w = 1
    /\ Len(hdr_packed) = 4
    /\ RecordCount(hdr_packed, 1, 0) = 255
    /\ RecordCount(hdr_packed, 1, 1) = 1
    /\ Len(hdr_unpacked.buffer) = 256

\* C25: for every bytes_for_counter, 0 and values above 4 included, and
\* every packed vector, unpack_header reads at most 4 count bytes per
\* record and reads nothing past the end of the vector.
C25_UnpackClamped ==
    hdr_pc \in {"read", "crashed"} =>
        /\ \A r \in 1..Len(hdr_raw.records) :
              Len(hdr_raw.records[r][2]) \in 1..4
        /\ hdr_raw.past_end = 0

---------------------------------------------------------------------------
(* Cursors of the two sector functions *)

\* the bytes encode_sector writes for the sector of the test, on an empty
\* output buffer
EncodedBytes ==
    encode_sector([input |-> reset_positions(sec_input),
                   output |-> CharBuffer(2352, {})],
                  sec_type, sec_options).output.current_position

\* C26: for every variant but ST_UNKNOWN and every flag set, encode_sector
\* advances the input cursor by 2352, and decode_sector advances the input
\* cursor by the number of bytes encode_sector wrote and the output cursor
\* by 2352.
C26_CursorsAgree ==
    sec_type # ST_UNKNOWN =>
        /\ sec_pc = "encoded" => sec_input.current_position = 2352
        /\ sec_pc = "decoded" =>
              /\ sec_process.current_position = EncodedBytes
              /\ sec_output.current_position = 2352

\* an XA1 sector decoded under all the flags: fewer bytes than 2352 were
\* written and read back
C26_Witness ==
    /\ sec_pc = "decoded" /\ sec_type = ST_MODE2_XA1 /\ sec_options = 255
    /\ sec_process.current_position = EncodedBytes
    /\ sec_process.current_position < 2352
    /\ sec_process.current_position > 0
    /\ sec_output.current_position = 2352

---------------------------------------------------------------------------
(* Cursors and index of one call *)

\* the offset in the output of sector k (from 0) of a decode call
DecodedAt(a, k) == a.output.current_position + 2352 * k

\* C28: whatever cursors the caller passes, every sector of a call is
\* processed with the saved start position at its first byte: the emission
\* pass of encode_stream reads the sectors the analysis pass classified,
\* ending 2352 bytes per sector after the cursor of entry, and the EDC
\* decode_stream generates for a sector is that of the bytes of this
\* sector.
C28_StartAtSector ==
    (call_pc = "returned" /\ call_ret.status = STATUS_OK) =>
        /\ call_args.op = "encode" =>
              /\ call_ret.input.current_position
                    = call_args.input.current_position + 2352 * call_args.inputSectorsNumber
              /\ call_ret.input.start_position = call_ret.input.current_position
        /\ (call_args.op = "decode" /\ Has(call_args.options, OO_REMOVE_EDC)) =>
              \A k \in 0..(call_args.inputSectorsNumber - 1) :
                  At(call_args.sectorsIndex, k) = ST_MODE1 =>
                      ValAt(call_ret.output.mem, DecodedAt(call_args, k) + 2064, 4)
                          = edc_compute(call_ret.output.mem, DecodedAt(call_args, k), 2064)

\* C29: when fewer entries than the sectors asked for lie between the
\* index cursor and the end of the index, decode_stream returns an error
\* and decodes nothing; it reads no entry beyond the vector.
C29_IndexBounds ==
    (/\ CallEnded /\ call_args.op = "decode"
     /\ IndexAvailable(call_args.sectorsIndex) < call_args.inputSectorsNumber) =>
        /\ call_pc = "returned"
        /\ call_ret.status # STATUS_OK
        /\ call_ret.output = call_args.output
        /\ ~DecodeReadsIndexPastEnd(call_args)

\* C30: when encode_stream returns a status that is not STATUS_OK, the
\* flags, the entries of the index and the cursors of the input, of the
\* output and of the index are the ones of entry.
C30_FailedCallFrame ==
    (call_pc = "returned" /\ call_args.op = "encode" /\ call_ret.status # STATUS_OK) =>
        /\ call_ret.options = call_args.options
        /\ call_ret.sectorsIndex = call_args.sectorsIndex
        /\ call_ret.input.current_position = call_args.input.current_position
        /\ call_ret.output.current_position = call_args.output.current_position

---------------------------------------------------------------------------
(* Chunks of the command line and the index cursor *)

\* the calls of a pass, in order: each entry of the log holds the image
\* sector its chunk starts at, the sectors of the chunk, and the index
\* cursor and the sector number its call was made with
PassCalls(pass) == SelectSeq(drv_log, LAMBDA e : e.pass = pass)

\* C23: when an image is decoded in consecutive chunks, the chunk that
\* starts at image sector i is decoded with the index cursor at i, so that
\* its sector j gets entry i + j, and with sector number 150 + i, as the
\* emission pass of the encoder had them; and after every decode_stream
\* call that returned STATUS_OK the cursor is further by the sectors of
\* that chunk.
C23_ChunkIndexing ==
    /\ \A k \in 1..Len(drv_log) :
          drv_log[k].pass \in {"emission", "decoding"} =>
              /\ drv_log[k].cursor = drv_log[k].first
              /\ drv_log[k].number = 150 + drv_log[k].first
    /\ \A k \in 1..(Len(PassCalls("decoding")) - 1) :
          PassCalls("decoding")[k].status = STATUS_OK =>
              PassCalls("decoding")[k + 1].cursor
                  = PassCalls("decoding")[k].cursor + PassCalls("decoding")[k].sectors
    /\ (drv_pc = "decoding" /\ drv_log # <<>> /\ drv_log[Len(drv_log)].status = STATUS_OK) =>
          drv_index.current_position
              = drv_log[Len(drv_log)].cursor + drv_log[Len(drv_log)].sectors

====
